---- MODULE Spec2Model ----
(***************************************************************************)
(* Transfer engine of clickhouse-flatfile-ingestion.                       *)
(*                                                                         *)
(*   Streaming Exporter : GET  app/api/export/clickhouse-to-file/route.ts  *)
(*   Batch Writer       : POST app/api/import/file-to-clickhouse/route.ts  *)
(*   Import channel     : GET  app/api/import/file-to-clickhouse/route.ts  *)
(*   Preview            : POST preview handler of app/api/tables/...       *)
(*   Schema Resolver    : POST unnamed/part_002                            *)
(*   Query Builder      : generateQuery of unnamed/part_000                *)
(*   Type Inference     : inferColumnType of unnamed/part_001              *)
(*   Import form        : handleImportToClickHouse of unnamed/part_001     *)
(*                                                                         *)
(* Text is a sequence of one-character strings.  An await of the handler   *)
(* is a step boundary: each action is the code between two awaits.         *)
(* The store client is a capability: a statement either executes or       *)
(* throws, a streamed result delivers the CSVWithNames text in chunks.     *)
(***************************************************************************)
EXTENDS Integers, Sequences, FiniteSets, TLC

VARIABLES
    \* ---- export job (GET export/clickhouse-to-file) ----
    epc,                  \* position of the export handler
    columns,              \* selected column names of the request
    filename,             \* name of the output file
    outFile,              \* lines written to outputStream, each without its "\n"
    outputOpen,           \* outputStream created and not yet ended
    storeText,            \* the whole CSVWithNames text of the store's result
    chunkSizes,           \* chunk lengths the transport of this result delivers
    delivered,            \* bytes of storeText already handed to the loop
    isFirstLine,
    lineCount,
    totalBytes,
    estimatedTotalBytes,
    events,               \* events enqueued on the SSE controller, in order
    controllerClosed,     \* controller.close() was called
    \* ---- import job (POST/GET import/file-to-clickhouse) ----
    ipc,                  \* position of the POST handler
    hasHeader,
    importColumns,        \* the request's columns: <<[name, type], ...>>
    fileLines,            \* the uploaded file: lines of fields
    tempFile,             \* the temporary upload file exists
    rows,                 \* projected rows (route.ts:105)
    loopIndex,            \* i of the batch loop
    processedRows,
    importProgress,       \* the local `progress` of the batch loop
    statements,           \* statements sent to the store, in order
    tableRows,            \* rows committed in the target table by this job
    response,             \* JSON response of the POST
    sseOpen,              \* the GET event stream of the import was opened
    importEvents,         \* events enqueued on the import's event stream
    \* ---- the export request and its caller ----
    exportGiven,          \* the parameters the export request carries
    importGiven,          \* the parameters the import request carries
    exportResponse,       \* JSON response of a rejected export request
    exportQuery,          \* the statement sent to the store (route.ts:45-51)
    disconnected,         \* the caller closed the event stream
    cancelled,            \* the runtime cancelled the ReadableStream
    \* ---- preview (POST preview/clickhouse) ----
    ppc,                  \* position of the preview handler
    previewGiven,         \* the parameters the preview request carries
    previewColumns,
    previewQuery,         \* the statement sent to the store
    previewResponse,
    \* ---- schema resolver (POST schema/clickhouse) ----
    spc,                  \* position of the schema handler
    schemaRequest,        \* [given, queryType, tableName, query]
    schemaQuery,          \* the statement sent to the store
    relationColumns,      \* the columns of the statement's result, as the store has them
    schemaResponse,
    \* ---- join form (MultiTableJoin) and its parent ----
    tables,               \* <<[name, alias], ...>>
    joins,                \* <<[type, table, condition], ...>>
    whereClause,
    orderByClause,
    limitClause,
    error,                \* the form's error text
    queryType,            \* parent state
    customQuery,          \* parent state
    \* ---- type inference (FileToClickHouse) ----
    sampleRows,           \* the column inferColumnType looks at, one value per row
    inferredType,
    \* ---- export jobs running side by side ----
    jobs,                 \* job -> the locals of its start() closure
    disk,                 \* path -> the lines of the file at that path
    \* ---- import form (FileToClickHouse) ----
    status,               \* "idle", "importing", "success" or "error"
    errorMessage,
    progress,
    importResult,         \* `result`: <<>> for null, else <<[recordCount, tableName]>>
    formFile,             \* `file`: <<>> for null, else <<lines>>
    formTableName,        \* `tableName` of the form
    formColumns,          \* `columns`: <<[name, type, selected], ...>>
    formHasHeader,
    hpc,                  \* position of handleImportToClickHouse
    eventSource           \* "none", "open" or "closed"

exportVars == <<epc, columns, filename, outFile, outputOpen, storeText,
                chunkSizes, delivered, isFirstLine, lineCount, totalBytes,
                estimatedTotalBytes, events, controllerClosed>>

importVars == <<ipc, hasHeader, importColumns, fileLines, tempFile, rows,
                loopIndex, processedRows, importProgress, statements,
                tableRows, response, sseOpen, importEvents>>

requestVars == <<exportGiven, importGiven, exportResponse, exportQuery>>

callerVars == <<disconnected, cancelled>>

previewVars == <<ppc, previewGiven, previewColumns, previewQuery, previewResponse>>

schemaVars == <<spc, schemaRequest, schemaQuery, relationColumns, schemaResponse>>

formVars == <<tables, joins, whereClause, orderByClause, limitClause, error,
              queryType, customQuery>>

inferVars == <<sampleRows, inferredType>>

jobVars == <<jobs, disk>>

clientVars == <<status, errorMessage, progress, importResult, formFile,
                formTableName, formColumns, formHasHeader, hpc, eventSource>>

otherVars == <<callerVars, previewVars, schemaVars, formVars, inferVars, jobVars,
               clientVars>>

vars == <<exportVars, importVars, requestVars, otherVars>>

----------------------------------------------------------------------------
(* Bounds of the explored inputs *)

MaxRows      == 2      \* rows of a short store result
MaxChunk     == 4      \* longest chunk of a short result (any cut 1..MaxChunk)
MaxLongRows  == 2500   \* rows of the long store result
LongChunk    == 512    \* chunk length of a long result
MaxClock     == 1      \* distinct timestamps a job can start at
MaxImportRows == 2001  \* lines of the largest uploaded file

(* Program constants *)

InitialEstimate == 1000000
ProgressEvery   == 1000
ProgressCap     == 99
batchSize       == 1000

----------------------------------------------------------------------------
(* Text helpers *)

NL == "\n"

Whitespace == {" ", "\t", "\r", NL}

Min(a, b) == IF a < b THEN a ELSE b

\* Math.round of the non-negative quotient a / b (halves round up)
Round(a, b) == (2 * a + b) \div (2 * b)

\* Array.prototype.join
RECURSIVE Join(_, _)
Join(parts, sep) ==
    IF parts = <<>> THEN <<>>
    ELSE IF Len(parts) = 1 THEN parts[1]
    ELSE parts[1] \o sep \o Join(Tail(parts), sep)

\* String.prototype.split("\n"): the pieces between the newlines, computed by
\* halving the text (the last piece of the left half continues in the first
\* piece of the right half)
RECURSIVE Split(_)
Split(s) ==
    IF Len(s) = 0 THEN <<s>>
    ELSE IF Len(s) = 1 THEN (IF s[1] = NL THEN << <<>>, <<>> >> ELSE <<s>>)
    ELSE LET mid   == Len(s) \div 2
             left  == Split(SubSeq(s, 1, mid))
             right == Split(SubSeq(s, mid + 1, Len(s)))
         IN  SubSeq(left, 1, Len(left) - 1)
                 \o <<left[Len(left)] \o right[1]>>
                 \o Tail(right)

\* line.trim() === ""
IsBlank(line) == \A i \in 1..Len(line) : line[i] \in Whitespace

\* the sequences over S of length at most n
RECURSIVE SeqsUpTo(_, _)
SeqsUpTo(S, n) ==
    IF n = 0 THEN {<<>>}
    ELSE LET shorter == SeqsUpTo(S, n - 1)
         IN  shorter \cup {Append(s, x) : s \in shorter, x \in S}

----------------------------------------------------------------------------
(* The store's streamed result (the environment of the export) *)

\* CSVWithNames text: the store's header line, then one line per row
StoreText(header, row, n) ==
    LET hl == Len(header) + 1
        rl == Len(row) + 1
    IN  [k \in 1..(hl + n * rl) |->
            IF k < hl THEN header[k]
            ELSE IF k = hl THEN NL
            ELSE IF (k - hl) % rl = 0 THEN NL
            ELSE row[(k - hl) % rl]]

StoreHeaders == {<<"h">>, <<"h", "d">>}
StoreRows    == {<<"a">>, <<"a", "b">>}

\* short results, cut anywhere; long results, cut every LongChunk bytes
ShortResults ==
    {[text |-> StoreText(h, r, n), sizes |-> 1..MaxChunk] :
        h \in StoreHeaders, r \in StoreRows, n \in 0..MaxRows}

LongRowCounts == {ProgressEvery, 2 * ProgressEvery, MaxLongRows}

LongResults ==
    {[text |-> StoreText(<<"h", "d">>, <<"a", "b">>, n), sizes |-> {LongChunk}] :
        n \in LongRowCounts}

StoreResults == ShortResults \cup LongResults

\* requests: the selected column names
ColumnSelections == {<<>>, <<<<"c">>>>, <<<<"c">>, <<"c", "c">>>>}

ExportName(ts) == <<"export_", ts, ".csv">>

----------------------------------------------------------------------------
(* Streaming Exporter *)

ErrorEvent(message) == [error |-> message]

ProgressEvent(p) == [progress |-> p]

CompletionEvent(count, name) ==
    [progress |-> 100, complete |-> TRUE, recordCount |-> count, filename |-> name]

IsProgress(e) == DOMAIN e = {"progress"}
IsComplete(e) == "complete" \in DOMAIN e
IsError(e)    == "error" \in DOMAIN e
IsTerminal(e) == IsComplete(e) \/ IsError(e)

\* variant: the percentage without its cap
ProgressUncapped(total, estimate) == Round(total * 100, estimate)

\* Math.min(99, Math.round((totalBytes / estimatedTotalBytes) * 100))
Progress(total, estimate) == Min(ProgressCap, Round(total * 100, estimate))

\* variant: the average line length so far, times the lines of the next thousand
ReestimateNextThousand(total, count) == (total \div count) * (count + ProgressEvery)

\* (totalBytes / lineCount) * (lineCount * 2), in exact arithmetic
Reestimate(total, count) == (total * (count * 2)) \div count

\* body of `for (const line of lines)`; st is the loop's view of the job
ProcessLine(st, line, total) ==
    IF IsBlank(line) THEN st
    ELSE IF st.isFirstLine THEN [st EXCEPT !.isFirstLine = FALSE]
    ELSE LET count   == st.lineCount + 1
             written == [st EXCEPT !.outFile = Append(@, line),
                                   !.lineCount = count]
         IN  IF count % ProgressEvery = 0
             THEN LET estimate == Reestimate(total, count)
                  IN  [written EXCEPT
                         !.estimatedTotalBytes = estimate,
                         !.events = Append(@, ProgressEvent(Progress(total, estimate)))]
             ELSE written

\* `for (const line of lines)`: the lines in order.  The fold is evaluated by
\* halves: the first half's state is computed (lineCount never decreases),
\* then the second half runs from it.
RECURSIVE ProcessLines(_, _, _)
ProcessLines(st, lines, total) ==
    IF lines = <<>> THEN st
    ELSE IF Len(lines) = 1 THEN ProcessLine(st, lines[1], total)
    ELSE LET mid  == Len(lines) \div 2
             half == ProcessLines(st, SubSeq(lines, 1, mid), total)
         IN  CASE half.lineCount >= st.lineCount ->
                  ProcessLines(half, SubSeq(lines, mid + 1, Len(lines)), total)

\* body of `for await (const chunk of readableStream)`
ProcessChunk(st, chunk) ==
    LET total   == st.totalBytes + Len(chunk)
        started == [st EXCEPT
                      !.totalBytes = total,
                      !.events = Append(@, ProgressEvent(
                                     Progress(total, st.estimatedTotalBytes)))]
    IN  ProcessLines(started, Split(chunk), total)

\* what a request can carry: the connection parameters (host, port, database;
\* for an import also the file and the table name) and the column list
Parameters == {"connection", "columns"}

MissingConnection(given) == "connection" \notin given

\* variant: only the presence of the list is tested
NoColumnList(given, cols) == "columns" \notin given

\* !columns || !Array.isArray(columns) || columns.length === 0
NoColumnSelected(given, cols) == "columns" \notin given \/ Len(cols) = 0

\* queryType, tableName and query of a request
QuerySources ==
    {[queryType |-> "table", tableName |-> <<"orders">>, query |-> <<>>],
     [queryType |-> "query", tableName |-> <<>>, query |-> <<"SELECT 1 AS c">>]}

\* `SELECT ${columnList} FROM ${tableName}` or `... FROM (${query})`, as
\* pieces of text
Projection(cols, source) ==
    <<"SELECT ">> \o Join(cols, <<", ">>)
        \o (IF source.queryType = "table"
            THEN <<" FROM ">> \o source.tableName
            ELSE <<" FROM ", "(">> \o source.query \o <<")">>)

\* the catch block of start(controller)
ExportCatch(message) ==
    /\ events' = Append(events, ErrorEvent(message))
    /\ controllerClosed' = TRUE
    /\ epc' = "failed"

\* GET without the connection parameters or without a selected column: 400,
\* no stream
ExportReject ==
    /\ epc = "idle"
    /\ \E given \in SUBSET Parameters, cols \in ColumnSelections :
          /\ MissingConnection(given) \/ NoColumnSelected(given, cols)
          /\ exportGiven' = given
          /\ columns' = IF "columns" \in given THEN cols ELSE <<>>
          /\ exportResponse' =
                IF MissingConnection(given)
                THEN [status |-> 400, error |-> "Missing required connection parameters"]
                ELSE [status |-> 400, error |-> "At least one column must be selected"]
    /\ epc' = "rejected"
    /\ UNCHANGED <<filename, outFile, outputOpen, storeText, chunkSizes,
                   delivered, isFirstLine, lineCount, totalBytes,
                   estimatedTotalBytes, events, controllerClosed>>
    /\ UNCHANGED <<importVars, importGiven, exportQuery, otherVars>>

\* GET up to `await client.query`: the output file gets its header line
ExportStart ==
    /\ epc = "idle"
    /\ \E cols \in ColumnSelections, source \in QuerySources, ts \in 1..MaxClock :
          /\ ~NoColumnSelected(Parameters, cols)
          /\ exportGiven' = Parameters
          /\ columns' = cols
          /\ exportQuery' = Projection(cols, source)
          /\ filename' = ExportName(ts)
          /\ outFile' = <<Join(cols, <<",">>)>>
    /\ outputOpen' = TRUE
    /\ epc' = "querying"
    /\ UNCHANGED <<storeText, chunkSizes, delivered, isFirstLine, lineCount,
                   totalBytes, estimatedTotalBytes, events, controllerClosed>>
    /\ UNCHANGED <<importVars, importGiven, exportResponse, otherVars>>

\* client.query resolves; the loop variables are initialised
ExportQueryOk ==
    /\ epc = "querying"
    /\ \E result \in StoreResults :
          /\ storeText' = result.text
          /\ chunkSizes' = result.sizes
    /\ delivered' = 0
    /\ isFirstLine' = TRUE
    /\ lineCount' = 0
    /\ totalBytes' = 0
    /\ estimatedTotalBytes' = InitialEstimate
    /\ epc' = "streaming"
    /\ UNCHANGED <<columns, filename, outFile, outputOpen, events, controllerClosed>>
    /\ UNCHANGED <<importVars, requestVars, otherVars>>

\* client.query rejects
ExportQueryFail ==
    /\ epc = "querying"
    /\ ExportCatch("query failed")
    /\ UNCHANGED <<columns, filename, outFile, outputOpen, storeText, chunkSizes,
                   delivered, isFirstLine, lineCount, totalBytes,
                   estimatedTotalBytes>>
    /\ UNCHANGED <<importVars, requestVars, otherVars>>

\* one iteration of the for-await loop
ExportChunk ==
    /\ epc = "streaming"
    /\ delivered < Len(storeText)
    /\ \E size \in chunkSizes :
          LET n     == Min(size, Len(storeText) - delivered)
              chunk == SubSeq(storeText, delivered + 1, delivered + n)
              st    == ProcessChunk(
                         [isFirstLine |-> isFirstLine,
                          lineCount |-> lineCount,
                          totalBytes |-> totalBytes,
                          estimatedTotalBytes |-> estimatedTotalBytes,
                          events |-> events,
                          outFile |-> outFile], chunk)
          IN  /\ delivered' = delivered + n
              /\ isFirstLine' = st.isFirstLine
              /\ lineCount' = st.lineCount
              /\ totalBytes' = st.totalBytes
              /\ estimatedTotalBytes' = st.estimatedTotalBytes
              /\ events' = st.events
              /\ outFile' = st.outFile
    /\ UNCHANGED <<epc, columns, filename, outputOpen, storeText, chunkSizes,
                   controllerClosed>>
    /\ UNCHANGED <<importVars, requestVars, otherVars>>

\* variant: a catch block that closes the channel without an error event
ExportStreamErrorSilent ==
    /\ epc = "streaming"
    /\ controllerClosed' = TRUE
    /\ epc' = "failed"
    /\ UNCHANGED <<columns, filename, outFile, outputOpen, storeText, chunkSizes,
                   delivered, isFirstLine, lineCount, totalBytes,
                   estimatedTotalBytes, events>>
    /\ UNCHANGED <<importVars, requestVars, otherVars>>

\* the result stream throws while it is being read
ExportStreamError ==
    /\ epc = "streaming"
    /\ ExportCatch("stream failed")
    /\ UNCHANGED <<columns, filename, outFile, outputOpen, storeText, chunkSizes,
                   delivered, isFirstLine, lineCount, totalBytes,
                   estimatedTotalBytes>>
    /\ UNCHANGED <<importVars, requestVars, otherVars>>

\* variant: the loop ends and the output stream is left open
ExportEndLeavesOpen ==
    /\ epc = "streaming"
    /\ delivered = Len(storeText)
    /\ epc' = "ended"
    /\ UNCHANGED <<columns, filename, outFile, outputOpen, storeText, chunkSizes,
                   delivered, isFirstLine, lineCount, totalBytes,
                   estimatedTotalBytes, events, controllerClosed>>
    /\ UNCHANGED <<importVars, requestVars, otherVars>>

\* the loop ends: outputStream.end()
ExportEnd ==
    /\ epc = "streaming"
    /\ delivered = Len(storeText)
    /\ outputOpen' = FALSE
    /\ epc' = "ended"
    /\ UNCHANGED <<columns, filename, outFile, storeText, chunkSizes, delivered,
                   isFirstLine, lineCount, totalBytes, estimatedTotalBytes,
                   events, controllerClosed>>
    /\ UNCHANGED <<importVars, requestVars, otherVars>>

\* the completion message, then controller.close()
ExportComplete ==
    /\ epc = "ended"
    /\ events' = Append(events, CompletionEvent(lineCount, filename))
    /\ controllerClosed' = TRUE
    /\ epc' = "done"
    /\ UNCHANGED <<columns, filename, outFile, outputOpen, storeText, chunkSizes,
                   delivered, isFirstLine, lineCount, totalBytes,
                   estimatedTotalBytes>>
    /\ UNCHANGED <<importVars, requestVars, otherVars>>

NextExport ==
    \/ ExportReject
    \/ ExportStart
    \/ ExportQueryOk
    \/ ExportQueryFail
    \/ ExportChunk
    \/ ExportStreamError
    \/ ExportEnd
    \/ ExportComplete

----------------------------------------------------------------------------
(* The uploaded file and the request (the environment of the import) *)

DigitChars == <<"0", "1", "2", "3", "4", "5", "6", "7", "8", "9">>

\* decimal text of a natural number
RECURSIVE Digits(_)
Digits(n) ==
    IF n < 10 THEN <<DigitChars[n + 1]>>
    ELSE Digits(n \div 10) \o <<DigitChars[(n % 10) + 1]>>

\* what a missing property or array element reads as
Undefined == <<"undefined">>

NameId     == <<"i", "d">>
NameName   == <<"n", "a", "m", "e">>
NameSalary == <<"s", "a", "l", "a", "r", "y">>

\* Column1, Column2, ...: the names the preview gives to a headerless file
GeneratedName(k) == <<"C", "o", "l", "u", "m", "n">> \o Digits(k)

NameFields == << <<"A", "l">>, <<"O", "'", "B">>, <<>> >>

\* line i of the data: its number, then a name (with a quote, or empty)
DataLine(i) == <<Digits(i), NameFields[(i % 3) + 1]>>

HeaderLine == <<NameId, NameName>>

DataFile(n)   == [i \in 1..n |-> DataLine(i)]
HeaderFile(n) == <<HeaderLine>> \o DataFile(n)
RaggedFile    == <<HeaderLine, DataLine(1), <<Digits(2)>> >>

ImportRowCounts == {0, 1, batchSize, batchSize + 1, MaxImportRows}

UploadedFiles ==
    {DataFile(n) : n \in ImportRowCounts}
        \cup {HeaderFile(n) : n \in ImportRowCounts}
        \cup {RaggedFile}

Column(name, type) == [name |-> name, type |-> type]

ColumnRequests ==
    { <<>>,
      <<Column(NameId, "UInt32")>>,
      <<Column(NameName, "String"), Column(NameId, "UInt32")>>,
      <<Column(NameId, "UInt32"), Column(NameSalary, "UInt32")>>,
      <<Column(GeneratedName(2), "String")>>,
      <<Column(GeneratedName(1), "UInt32"), Column(GeneratedName(2), "String"),
        Column(GeneratedName(3), "String")>> }

TargetTable == "target"

----------------------------------------------------------------------------
(* Batch Writer *)

\* parse(fileContent, {delimiter, columns: hasHeader, skip_empty_lines, trim}):
\* lines of unequal length are rejected; with columns: true the first line
\* gives the keys and every other line becomes a record keyed by them
Parse(lines, header) ==
    IF \E i \in 1..Len(lines) : Len(lines[i]) # Len(lines[1])
    THEN [ok |-> FALSE, records |-> <<>>]
    ELSE IF ~header THEN [ok |-> TRUE, records |-> lines]
    ELSE IF Len(lines) = 0 THEN [ok |-> TRUE, records |-> <<>>]
    ELSE LET keys == lines[1]
         IN  [ok |-> TRUE,
              records |->
                [i \in 1..(Len(lines) - 1) |->
                   [name \in {keys[j] : j \in 1..Len(keys)} |->
                      lines[i + 1][CHOOSE j \in 1..Len(keys) :
                                      /\ keys[j] = name
                                      /\ \A m \in (j + 1)..Len(keys) : keys[m] # name]]]]

\* record[col]
Property(record, name) ==
    IF name \in DOMAIN record THEN record[name] ELSE Undefined

\* record[i], i counted from 0
Element(record, i) ==
    IF i + 1 \in 1..Len(record) THEN record[i + 1] ELSE Undefined

\* route.ts:105-115: the projection of the records on the requested columns
ProjectRows(records, header, cols) ==
    IF header
    THEN [r \in 1..Len(records) |->
            [c \in 1..Len(cols) |-> Property(records[r], cols[c].name)]]
    ELSE [r \in 1..Len(records) |->
            [c \in 1..Len(cols) |-> Element(records[r], c - 1)]]

\* val.replace(/'/g, "''")
RECURSIVE DoubleQuotes(_)
DoubleQuotes(text) ==
    IF text = <<>> THEN <<>>
    ELSE (IF Head(text) = "'" THEN <<"'", "'">> ELSE <<Head(text)>>)
             \o DoubleQuotes(Tail(text))

NullLiteral == <<"N", "U", "L", "L">>

\* route.ts:135-143; the parser yields strings only, so a value that is not
\* empty or missing is always a string
RenderValue(val) ==
    IF val = Undefined \/ val = <<>> THEN NullLiteral
    ELSE <<"'">> \o DoubleQuotes(val) \o <<"'">>

RenderRow(row) == [c \in 1..Len(row) |-> RenderValue(row[c])]

\* rows.slice(i, i + batchSize)
Slice(all, from, to) == SubSeq(all, from + 1, Min(to, Len(all)))

CreateStatement(cols, ok) ==
    [kind |-> "CREATE", table |-> TargetTable, columns |-> cols, ok |-> ok]

InsertStatement(cols, batch, ok) ==
    [kind |-> "INSERT", table |-> TargetTable,
     columns |-> [c \in 1..Len(cols) |-> cols[c].name],
     values |-> [r \in 1..Len(batch) |-> RenderRow(batch[r])],
     ok |-> ok]

totalRows == Len(rows)

\* variant: a loop that stops one row early
LoopStopsEarly(i, total) == i < total - 1

\* the loop test i < totalRows
LoopContinues(i, total) == i < total

\* the catch block of POST
ImportCatch(message) ==
    /\ response' = [status |-> 500, error |-> message]
    /\ ipc' = "failed"

\* POST with a missing parameter or an empty column list: 400, nothing is done
ImportReject ==
    /\ ipc = "idle"
    /\ \E given \in SUBSET Parameters, file \in UploadedFiles,
          header \in BOOLEAN, cols \in ColumnRequests :
          /\ given # Parameters \/ Len(cols) = 0
          /\ importGiven' = given
          /\ fileLines' = file
          /\ hasHeader' = header
          /\ importColumns' = IF "columns" \in given THEN cols ELSE <<>>
          /\ response' =
                IF given # Parameters
                THEN [status |-> 400, error |-> "Missing required parameters"]
                ELSE [status |-> 400, error |-> "At least one column must be selected"]
    /\ ipc' = "rejected"
    /\ UNCHANGED <<tempFile, rows, loopIndex, processedRows, importProgress,
                   statements, tableRows, sseOpen, importEvents>>
    /\ UNCHANGED <<exportVars, exportGiven, exportResponse, exportQuery, otherVars>>

\* POST up to the await of the create statement: the upload is on disk
ImportStart ==
    /\ ipc = "idle"
    /\ \E file \in UploadedFiles, header \in BOOLEAN, cols \in ColumnRequests :
          /\ Len(cols) # 0
          /\ importGiven' = Parameters
          /\ fileLines' = file
          /\ hasHeader' = header
          /\ importColumns' = cols
    /\ tempFile' = TRUE
    /\ ipc' = "creating"
    /\ UNCHANGED <<rows, loopIndex, processedRows, importProgress, statements,
                   tableRows, response, sseOpen, importEvents>>
    /\ UNCHANGED <<exportVars, exportGiven, exportResponse, exportQuery, otherVars>>

\* the create statement executed; the file is read, parsed and projected
ImportCreateOk ==
    /\ ipc = "creating"
    /\ statements' = Append(statements, CreateStatement(importColumns, TRUE))
    /\ LET parsed == Parse(fileLines, hasHeader)
       IN  IF ~parsed.ok
           THEN /\ ImportCatch("parse failed")
                /\ UNCHANGED <<rows, loopIndex, processedRows>>
           ELSE LET projected == ProjectRows(parsed.records, hasHeader, importColumns)
                IN  /\ rows' = projected
                    /\ loopIndex' = 0
                    /\ processedRows' = 0
                    /\ ipc' = IF LoopContinues(0, Len(projected))
                              THEN "inserting" ELSE "cleanup"
                    /\ UNCHANGED response
    /\ UNCHANGED <<hasHeader, importColumns, fileLines, tempFile, importProgress,
                   tableRows, sseOpen, importEvents>>
    /\ UNCHANGED <<exportVars, requestVars, otherVars>>

\* variant: a create statement that threw is ignored and the import goes on
ImportCreateFailIgnored ==
    /\ ipc = "creating"
    /\ statements' = Append(statements, CreateStatement(importColumns, FALSE))
    /\ LET parsed == Parse(fileLines, hasHeader)
           projected == ProjectRows(parsed.records, hasHeader, importColumns)
       IN  /\ parsed.ok
           /\ rows' = projected
           /\ loopIndex' = 0
           /\ processedRows' = 0
           /\ ipc' = IF LoopContinues(0, Len(projected)) THEN "inserting" ELSE "cleanup"
    /\ UNCHANGED <<hasHeader, importColumns, fileLines, tempFile, importProgress,
                   tableRows, response, sseOpen, importEvents>>
    /\ UNCHANGED <<exportVars, requestVars, otherVars>>

\* the create statement threw
ImportCreateFail ==
    /\ ipc = "creating"
    /\ statements' = Append(statements, CreateStatement(importColumns, FALSE))
    /\ ImportCatch("create failed")
    /\ UNCHANGED <<hasHeader, importColumns, fileLines, tempFile, rows, loopIndex,
                   processedRows, importProgress, tableRows, sseOpen, importEvents>>
    /\ UNCHANGED <<exportVars, requestVars, otherVars>>

\* the insert of the batch at loopIndex executed; progress is computed
ImportInsertOk ==
    /\ ipc = "inserting"
    /\ LET batch == Slice(rows, loopIndex, loopIndex + batchSize)
           stmt  == InsertStatement(importColumns, batch, TRUE)
       IN  /\ statements' = Append(statements, stmt)
           /\ tableRows' = tableRows \o stmt.values
           /\ processedRows' = processedRows + Len(batch)
           /\ importProgress' = Round((processedRows + Len(batch)) * 100, totalRows)
    /\ loopIndex' = loopIndex + batchSize
    /\ ipc' = IF LoopContinues(loopIndex + batchSize, totalRows)
              THEN "inserting" ELSE "cleanup"
    /\ UNCHANGED <<hasHeader, importColumns, fileLines, tempFile, rows, response,
                   sseOpen, importEvents>>
    /\ UNCHANGED <<exportVars, requestVars, otherVars>>

\* variant: a failed insert is skipped and the loop goes on
ImportInsertFailSkips ==
    /\ ipc = "inserting"
    /\ statements' = Append(statements,
          InsertStatement(importColumns,
                          Slice(rows, loopIndex, loopIndex + batchSize), FALSE))
    /\ loopIndex' = loopIndex + batchSize
    /\ ipc' = IF LoopContinues(loopIndex + batchSize, totalRows)
              THEN "inserting" ELSE "cleanup"
    /\ UNCHANGED <<hasHeader, importColumns, fileLines, tempFile, rows,
                   processedRows, importProgress, tableRows, response, sseOpen,
                   importEvents>>
    /\ UNCHANGED <<exportVars, requestVars, otherVars>>

\* the insert of the batch at loopIndex threw
ImportInsertFail ==
    /\ ipc = "inserting"
    /\ statements' = Append(statements,
          InsertStatement(importColumns,
                          Slice(rows, loopIndex, loopIndex + batchSize), FALSE))
    /\ ImportCatch("insert failed")
    /\ UNCHANGED <<hasHeader, importColumns, fileLines, tempFile, rows, loopIndex,
                   processedRows, importProgress, tableRows, sseOpen, importEvents>>
    /\ UNCHANGED <<exportVars, requestVars, otherVars>>

\* after the loop: the upload is removed and the result returned
ImportCleanup ==
    /\ ipc = "cleanup"
    /\ tempFile' = FALSE
    /\ response' = [status |-> 200, success |-> TRUE, recordCount |-> totalRows,
                    tableName |-> TargetTable]
    /\ ipc' = "done"
    /\ UNCHANGED <<hasHeader, importColumns, fileLines, rows, loopIndex,
                   processedRows, importProgress, statements, tableRows, sseOpen,
                   importEvents>>
    /\ UNCHANGED <<exportVars, requestVars, otherVars>>

\* GET: the event stream is opened; its start() enqueues nothing
ImportSubscribe ==
    /\ ~sseOpen
    /\ sseOpen' = TRUE
    /\ UNCHANGED <<ipc, hasHeader, importColumns, fileLines, tempFile, rows,
                   loopIndex, processedRows, importProgress, statements,
                   tableRows, response, importEvents>>
    /\ UNCHANGED <<exportVars, requestVars, otherVars>>

NextImport ==
    \/ ImportReject
    \/ ImportStart
    \/ ImportCreateOk
    \/ ImportCreateFail
    \/ ImportInsertOk
    \/ ImportInsertFail
    \/ ImportCleanup
    \/ ImportSubscribe

----------------------------------------------------------------------------

(* Streaming Exporter with a caller that disconnects *)

\* the caller closes the event stream while the export runs.  The handler has
\* no cancel callback; the runtime either cancels the ReadableStream, after
\* which controller.enqueue throws, or keeps it, and the events pile up unread
ExportDisconnect ==
    /\ epc \in {"querying", "streaming"}
    /\ ~disconnected
    /\ disconnected' = TRUE
    /\ cancelled' \in BOOLEAN
    /\ UNCHANGED <<jobVars, clientVars, exportVars, importVars, requestVars, previewVars, schemaVars,
                   formVars, inferVars>>

\* an enqueue on the cancelled stream throws inside the try block, the catch
\* block's own enqueue throws again: start() rejects, nothing else runs
ExportAbort ==
    /\ epc' = "aborted"
    /\ UNCHANGED <<events, controllerClosed, outputOpen, outFile>>

\* client.query rejects on a cancelled stream
ExportQueryFailCancelled ==
    /\ epc = "querying"
    /\ ExportAbort
    /\ UNCHANGED <<columns, filename, storeText, chunkSizes, delivered,
                   isFirstLine, lineCount, totalBytes, estimatedTotalBytes>>
    /\ UNCHANGED <<importVars, requestVars, otherVars>>

\* a chunk arrives on a cancelled stream: it is counted, the progress enqueue
\* throws before any line is written
ExportChunkCancelled ==
    /\ epc = "streaming"
    /\ delivered < Len(storeText)
    /\ \E size \in chunkSizes :
          LET n == Min(size, Len(storeText) - delivered)
          IN  /\ delivered' = delivered + n
              /\ totalBytes' = totalBytes + n
    /\ ExportAbort
    /\ UNCHANGED <<columns, filename, storeText, chunkSizes, isFirstLine,
                   lineCount, estimatedTotalBytes>>
    /\ UNCHANGED <<importVars, requestVars, otherVars>>

\* the result stream throws on a cancelled stream
ExportStreamErrorCancelled ==
    /\ epc = "streaming"
    /\ ExportAbort
    /\ UNCHANGED <<columns, filename, storeText, chunkSizes, delivered,
                   isFirstLine, lineCount, totalBytes, estimatedTotalBytes>>
    /\ UNCHANGED <<importVars, requestVars, otherVars>>

\* the completion enqueue on a cancelled stream
ExportCompleteCancelled ==
    /\ epc = "ended"
    /\ ExportAbort
    /\ UNCHANGED <<columns, filename, storeText, chunkSizes, delivered,
                   isFirstLine, lineCount, totalBytes, estimatedTotalBytes>>
    /\ UNCHANGED <<importVars, requestVars, otherVars>>

NextExportCancel ==
    \/ ExportDisconnect
    \/ (~cancelled /\ NextExport)
    \/ (cancelled /\ ExportQueryOk)
    \/ (cancelled /\ ExportQueryFailCancelled)
    \/ (cancelled /\ ExportChunkCancelled)
    \/ (cancelled /\ ExportStreamErrorCancelled)
    \/ (cancelled /\ ExportEnd)
    \/ (cancelled /\ ExportCompleteCancelled)

----------------------------------------------------------------------------

(* Export jobs running side by side (two GET requests in one server) *)
\* Every variable of a job is a local of the start() closure of its own
\* request; the file system under os.tmpdir() is what the jobs have in common.

JobIds == {1, 2}

\* the names fs.mkdtemp can give to a new directory
DirNames == {"clickhouse-export-a", "clickhouse-export-b"}

Paths == {<<dir, ExportName(ts)>> : dir \in DirNames, ts \in 1..MaxClock}

\* the store's results for the jobs: short results in chunks of the two
\* largest sizes
JobResults ==
    {[text |-> StoreText(<<"h">>, r, n), sizes |-> (MaxChunk - 1)..MaxChunk] :
        r \in StoreRows, n \in (MaxRows - 1)..MaxRows}

\* the locals of a request that has not run yet
JobIdle ==
    [pc |-> "idle", columns |-> <<>>, path |-> <<>>, text |-> <<>>, sizes |-> {},
     delivered |-> 0, received |-> <<>>, isFirstLine |-> TRUE, lineCount |-> 0,
     totalBytes |-> 0, estimatedTotalBytes |-> InitialEstimate, events |-> <<>>]

\* the directories that exist under os.tmpdir()
TempDirs == {p[1] : p \in {q \in Paths : disk[q] # <<>>}}

\* variant: a directory name is drawn without looking at the existing ones
MakeTempDirAny(existing) == DirNames

\* fs.mkdtemp(prefix): a directory of a name that did not exist
MakeTempDir(existing) == DirNames \ existing

\* job j up to `await client.query`: its directory is made, its output file is
\* created and gets the header line
JobStart(j) ==
    /\ jobs[j].pc = "idle"
    /\ \E cols \in ColumnSelections \ {<<>>}, ts \in 1..MaxClock,
          dir \in MakeTempDir(TempDirs) :
          LET outputPath == <<dir, ExportName(ts)>>
          IN  /\ disk' = [disk EXCEPT ![outputPath] = <<Join(cols, <<",">>)>>]
              /\ jobs' = [jobs EXCEPT ![j] =
                            [JobIdle EXCEPT !.pc = "querying", !.columns = cols,
                                            !.path = outputPath]]
    /\ UNCHANGED <<clientVars, exportVars, importVars, requestVars, callerVars,
                   previewVars, schemaVars, formVars, inferVars>>

\* client.query of job j resolves
JobQueryOk(j) ==
    /\ jobs[j].pc = "querying"
    /\ \E result \in JobResults :
          jobs' = [jobs EXCEPT ![j].pc = "streaming", ![j].text = result.text,
                               ![j].sizes = result.sizes]
    /\ UNCHANGED disk
    /\ UNCHANGED <<clientVars, exportVars, importVars, requestVars, callerVars,
                   previewVars, schemaVars, formVars, inferVars>>

\* one iteration of the for-await loop of job j: the lines it writes go to the
\* end of the file at its path
JobChunk(j) ==
    /\ jobs[j].pc = "streaming"
    /\ jobs[j].delivered < Len(jobs[j].text)
    /\ \E size \in jobs[j].sizes :
          LET job   == jobs[j]
              n     == Min(size, Len(job.text) - job.delivered)
              chunk == SubSeq(job.text, job.delivered + 1, job.delivered + n)
              st    == ProcessChunk(
                         [isFirstLine |-> job.isFirstLine,
                          lineCount |-> job.lineCount,
                          totalBytes |-> job.totalBytes,
                          estimatedTotalBytes |-> job.estimatedTotalBytes,
                          events |-> job.events,
                          outFile |-> <<>>], chunk)
          IN  /\ jobs' = [jobs EXCEPT ![j] =
                            [job EXCEPT !.delivered = job.delivered + n,
                                        !.received = Append(job.received, chunk),
                                        !.isFirstLine = st.isFirstLine,
                                        !.lineCount = st.lineCount,
                                        !.totalBytes = st.totalBytes,
                                        !.estimatedTotalBytes = st.estimatedTotalBytes,
                                        !.events = st.events]]
              /\ disk' = [disk EXCEPT ![job.path] = @ \o st.outFile]
    /\ UNCHANGED <<clientVars, exportVars, importVars, requestVars, callerVars,
                   previewVars, schemaVars, formVars, inferVars>>

\* client.query of job j rejects or its stream throws: the catch block
JobFail(j) ==
    /\ jobs[j].pc \in {"querying", "streaming"}
    /\ jobs' = [jobs EXCEPT ![j].pc = "failed",
                            ![j].events = Append(@, ErrorEvent("failed"))]
    /\ UNCHANGED disk
    /\ UNCHANGED <<clientVars, exportVars, importVars, requestVars, callerVars,
                   previewVars, schemaVars, formVars, inferVars>>

\* the stream of job j is exhausted: the completion event
JobComplete(j) ==
    /\ jobs[j].pc = "streaming"
    /\ jobs[j].delivered = Len(jobs[j].text)
    /\ jobs' = [jobs EXCEPT ![j].pc = "done",
                            ![j].events = Append(@, CompletionEvent(jobs[j].lineCount,
                                                                    jobs[j].path[2]))]
    /\ UNCHANGED disk
    /\ UNCHANGED <<clientVars, exportVars, importVars, requestVars, callerVars,
                   previewVars, schemaVars, formVars, inferVars>>

NextJobs ==
    \E j \in JobIds :
        \/ JobStart(j)
        \/ JobQueryOk(j)
        \/ JobChunk(j)
        \/ JobFail(j)
        \/ JobComplete(j)

----------------------------------------------------------------------------

(* Import form (FileToClickHouse): handleImportToClickHouse and its requests *)

CSVColumn(name, type, selected) == [name |-> name, type |-> type, selected |-> selected]

\* the files the user can have chosen
FormFiles == {HeaderFile(0), HeaderFile(1), DataFile(1), RaggedFile}

\* the column lists of the form: none before a parse, else the parsed columns
\* with their selection marks
FormColumnLists ==
    {<<>>}
      \cup {<<CSVColumn(NameName, "String", s), CSVColumn(NameId, "UInt32", TRUE)>> :
              s \in BOOLEAN}
      \cup {<<CSVColumn(NameName, "String", FALSE), CSVColumn(NameId, "UInt32", FALSE)>>}
      \cup {<<CSVColumn(GeneratedName(1), "UInt32", s), CSVColumn(GeneratedName(2), "String", TRUE),
              CSVColumn(GeneratedName(3), "String", s)>> : s \in BOOLEAN}

\* columns.filter((col) => col.selected)
selectedColumns == SelectSeq(formColumns, LAMBDA col : col.selected)

\* what the route reads of the posted columns: name and type
PostedColumns ==
    [c \in 1..Len(selectedColumns) |->
        Column(selectedColumns[c].name, selectedColumns[c].type)]

\* part_001:168-227: the handler up to `await fetch`
ImportPressed ==
    /\ hpc = "idle"
    /\ IF formFile = <<>> \/ formTableName = ""
       THEN /\ errorMessage' = "Please select a file and provide a table name"
            /\ hpc' = "returned"
            /\ UNCHANGED <<status, progress, importResult, eventSource>>
       ELSE IF Len(selectedColumns) = 0
       THEN /\ status' = "error"
            /\ errorMessage' = "Please select at least one column to import"
            /\ progress' = 0
            /\ importResult' = <<>>
            /\ hpc' = "returned"
            /\ UNCHANGED eventSource
       ELSE /\ status' = "importing"
            /\ errorMessage' = ""
            /\ progress' = 0
            /\ importResult' = <<>>
            /\ eventSource' = "open"
            /\ hpc' = "posted"
    /\ UNCHANGED <<formFile, formTableName, formColumns, formHasHeader>>
    /\ UNCHANGED <<jobVars, exportVars, importVars, requestVars, callerVars,
                   previewVars, schemaVars, formVars, inferVars>>

\* the POST of the form reaches the route and passes its parameter checks
PostArrives ==
    /\ hpc = "posted"
    /\ ImportStart
    /\ fileLines' = formFile[1]
    /\ hasHeader' = formHasHeader
    /\ importColumns' = PostedColumns

\* the POST of a form whose connection fields were blanked: the route's 400
PostRejected ==
    /\ hpc = "posted"
    /\ ImportReject
    /\ importGiven' = {"columns"}
    /\ fileLines' = formFile[1]
    /\ hasHeader' = formHasHeader
    /\ importColumns' = PostedColumns

\* the route's steps after its parameter checks
PostRuns ==
    \/ ImportCreateOk
    \/ ImportCreateFail
    \/ ImportInsertOk
    \/ ImportInsertFail
    \/ ImportCleanup

\* the GET of the EventSource reaches the route
GetArrives ==
    /\ eventSource = "open"
    /\ ImportSubscribe

\* part_001:229-243: the fetch resolved; only a response that is not ok is
\* acted upon
ImportResponded ==
    /\ hpc = "posted"
    /\ ipc \in {"rejected", "failed", "done"}
    /\ IF response.status # 200
       THEN /\ status' = "error"
            /\ errorMessage' = response.error
       ELSE UNCHANGED <<status, errorMessage>>
    /\ hpc' = "returned"
    /\ UNCHANGED <<progress, importResult, eventSource, formFile, formTableName,
                   formColumns, formHasHeader>>
    /\ UNCHANGED <<jobVars, exportVars, importVars, requestVars, callerVars,
                   previewVars, schemaVars, formVars, inferVars>>

\* eventSource.onerror: the connection of the EventSource failed
EventSourceError ==
    /\ eventSource = "open"
    /\ eventSource' = "closed"
    /\ status' = "error"
    /\ errorMessage' = "Error during import. Check server logs for details."
    /\ UNCHANGED <<progress, importResult, hpc, formFile, formTableName,
                   formColumns, formHasHeader>>
    /\ UNCHANGED <<jobVars, exportVars, importVars, requestVars, callerVars,
                   previewVars, schemaVars, formVars, inferVars>>

\* eventSource.onmessage for an event of the channel.  The route's stream
\* enqueues nothing (importEvents stays empty), so no behaviour takes this
\* step; it is not part of NextClient.
EventSourceMessage ==
    /\ eventSource = "open"
    /\ \E i \in 1..Len(importEvents) :
          LET data == importEvents[i]
          IN  /\ progress' = IF "progress" \in DOMAIN data THEN data.progress
                             ELSE progress
              /\ IF "complete" \in DOMAIN data
                 THEN /\ importResult' = <<[recordCount |-> data.recordCount,
                                            tableName |-> data.tableName]>>
                      /\ status' = "success"
                      /\ eventSource' = "closed"
                 ELSE UNCHANGED <<importResult, status, eventSource>>
    /\ UNCHANGED <<errorMessage, hpc, formFile, formTableName, formColumns,
                   formHasHeader>>
    /\ UNCHANGED <<jobVars, exportVars, importVars, requestVars, callerVars,
                   previewVars, schemaVars, formVars, inferVars>>

\* the request of the form is delivered, handled and answered
PostHandled ==
    \/ PostArrives
    \/ PostRejected
    \/ PostRuns
    \/ ImportResponded

NextClient ==
    \/ ImportPressed
    \/ PostHandled
    \/ GetArrives
    \/ EventSourceError

----------------------------------------------------------------------------

(* Preview (POST preview/clickhouse) *)

PreviewLimit == 100

\* rows the store returns for a preview statement, keyed by column name
PreviewRecords ==
    LET one == [name \in {<<"c">>, <<"c", "c">>} |-> <<"a">>]
        two == [name \in {<<"c">>, <<"c", "c">>} |-> <<"b">>]
    IN  {<<>>, <<one>>, <<one, two>>}

\* the catch block of POST
PreviewCatch(message) ==
    /\ previewResponse' = [status |-> 500, error |-> message]
    /\ ppc' = "failed"

\* POST without the connection parameters or without a selected column: 400
PreviewReject ==
    /\ ppc = "idle"
    /\ \E given \in SUBSET Parameters, cols \in ColumnSelections :
          /\ MissingConnection(given) \/ NoColumnSelected(given, cols)
          /\ previewGiven' = given
          /\ previewColumns' = IF "columns" \in given THEN cols ELSE <<>>
          /\ previewResponse' =
                IF MissingConnection(given)
                THEN [status |-> 400, error |-> "Missing required connection parameters"]
                ELSE [status |-> 400, error |-> "At least one column must be selected"]
    /\ ppc' = "rejected"
    /\ UNCHANGED previewQuery
    /\ UNCHANGED <<jobVars, clientVars, exportVars, importVars, requestVars, callerVars, schemaVars,
                   formVars, inferVars>>

\* POST up to `await client.query`
PreviewStart ==
    /\ ppc = "idle"
    /\ \E cols \in ColumnSelections, source \in QuerySources :
          /\ ~NoColumnSelected(Parameters, cols)
          /\ previewGiven' = Parameters
          /\ previewColumns' = cols
          /\ previewQuery' = Projection(cols, source)
                                \o <<" LIMIT ">> \o Digits(PreviewLimit)
    /\ ppc' = "querying"
    /\ UNCHANGED previewResponse
    /\ UNCHANGED <<jobVars, clientVars, exportVars, importVars, requestVars, callerVars, schemaVars,
                   formVars, inferVars>>

\* the statement executed: each row is projected on the selected columns
PreviewOk ==
    /\ ppc = "querying"
    /\ \E data \in PreviewRecords :
          previewResponse' =
              [status |-> 200, columns |-> previewColumns,
               rows |-> [r \in 1..Len(data) |->
                           [c \in 1..Len(previewColumns) |->
                              Property(data[r], previewColumns[c])]]]
    /\ ppc' = "done"
    /\ UNCHANGED <<previewGiven, previewColumns, previewQuery>>
    /\ UNCHANGED <<jobVars, clientVars, exportVars, importVars, requestVars, callerVars, schemaVars,
                   formVars, inferVars>>

\* the store rejected the statement
PreviewFail ==
    /\ ppc = "querying"
    /\ PreviewCatch("query failed")
    /\ UNCHANGED <<previewGiven, previewColumns, previewQuery>>
    /\ UNCHANGED <<jobVars, clientVars, exportVars, importVars, requestVars, callerVars, schemaVars,
                   formVars, inferVars>>

NextPreview ==
    \/ PreviewReject
    \/ PreviewStart
    \/ PreviewOk
    \/ PreviewFail

\* one request at a time: an export, an import or a preview
NextTransfer ==
    \/ (ipc = "idle" /\ ~sseOpen /\ ppc = "idle" /\ NextExport)
    \/ (epc = "idle" /\ ppc = "idle" /\ NextImport)
    \/ (epc = "idle" /\ ipc = "idle" /\ ~sseOpen /\ NextPreview)

----------------------------------------------------------------------------

(* Schema resolver (POST schema/clickhouse) *)

MaxSchemaColumns == 2      \* columns of a table or of a query result

SchemaRequests ==
    [given : {{}, {"connection"}},
     queryType : {"table", "query"},
     tableName : {<<>>, <<"orders">>},
     query : {<<>>, <<"SELECT 1 AS c">>}]

\* the column descriptors the store can hold for a relation
StoreColumns ==
    {Column(NameId, "UInt32"), Column(NameName, "String"),
     Column(NameSalary, "Float64"), Column(<<"d", "a", "y">>, "Date")}

StoreRelations == SeqsUpTo(StoreColumns, MaxSchemaColumns)

\* the rows and the column metadata of the store's answer to a schema
\* statement: DESCRIBE TABLE answers one row per column of the table, a
\* statement ending in LIMIT 0 answers no row and has the columns as metadata
StoreAnswer(request, described) ==
    IF request.queryType = "table"
    THEN [meta |-> <<Column(NameName, "String"), Column(<<"t", "y", "p", "e">>, "String")>>,
          rows |-> described]
    ELSE [meta |-> described, rows |-> <<>>]

\* result.json() of an answer in a format: JSONEachRow is the array of the
\* rows, one JSON object per row, and carries no metadata; JSON is one object
\* with the metadata and the rows
ResultJson(format, answer) ==
    IF format = "JSONEachRow"
    THEN [isArray |-> TRUE, items |-> answer.rows]
    ELSE [isArray |-> FALSE, meta |-> answer.meta, data |-> answer.rows]

\* part_002:49-67: the descriptors read from the parsed answer
SchemaColumns(request, data) ==
    IF request.queryType = "table"
    THEN IF data.isArray
         THEN [i \in 1..Len(data.items) |->
                 Column(data.items[i].name, data.items[i].type)]
         ELSE <<>>
    ELSE IF "meta" \in DOMAIN data
         THEN [i \in 1..Len(data.meta) |->
                 Column(data.meta[i].name, data.meta[i].type)]
         ELSE <<>>

\* `DESCRIBE TABLE ${tableName}` or `SELECT * FROM (${query}) LIMIT 0`
SchemaStatement(request) ==
    IF request.queryType = "table"
    THEN <<"DESCRIBE TABLE ">> \o request.tableName
    ELSE <<"SELECT * FROM ", "(">> \o request.query \o <<")", " LIMIT 0">>

\* the validation error of a request, "" when it passes
SchemaValidation(request) ==
    IF MissingConnection(request.given) THEN "Missing required connection parameters"
    ELSE IF request.queryType = "table" /\ request.tableName = <<>>
         THEN "Table name is required"
    ELSE IF request.queryType = "query" /\ request.query = <<>>
         THEN "SQL query is required"
    ELSE ""

SchemaReject ==
    /\ spc = "idle"
    /\ \E request \in SchemaRequests :
          /\ SchemaValidation(request) # ""
          /\ schemaRequest' = request
          /\ schemaResponse' = [status |-> 400, error |-> SchemaValidation(request)]
    /\ spc' = "rejected"
    /\ UNCHANGED <<schemaQuery, relationColumns>>
    /\ UNCHANGED <<jobVars, clientVars, exportVars, importVars, requestVars, callerVars, previewVars,
                   formVars, inferVars>>

\* POST up to `await client.query`
SchemaStart ==
    /\ spc = "idle"
    /\ \E request \in SchemaRequests :
          /\ SchemaValidation(request) = ""
          /\ schemaRequest' = request
          /\ schemaQuery' = SchemaStatement(request)
    /\ spc' = "querying"
    /\ UNCHANGED <<relationColumns, schemaResponse>>
    /\ UNCHANGED <<jobVars, clientVars, exportVars, importVars, requestVars, callerVars, previewVars,
                   formVars, inferVars>>

\* the statement executed, in the JSONEachRow format the handler asked for
SchemaOk ==
    /\ spc = "querying"
    /\ \E described \in StoreRelations :
          /\ relationColumns' = described
          /\ schemaResponse' =
                [status |-> 200,
                 columns |-> SchemaColumns(schemaRequest,
                                 ResultJson("JSONEachRow",
                                            StoreAnswer(schemaRequest, described)))]
    /\ spc' = "done"
    /\ UNCHANGED <<schemaRequest, schemaQuery>>
    /\ UNCHANGED <<jobVars, clientVars, exportVars, importVars, requestVars, callerVars, previewVars,
                   formVars, inferVars>>

\* the store rejected the statement: the catch block
SchemaFail ==
    /\ spc = "querying"
    /\ schemaResponse' = [status |-> 500, error |-> "query failed"]
    /\ spc' = "failed"
    /\ UNCHANGED <<schemaRequest, schemaQuery, relationColumns>>
    /\ UNCHANGED <<jobVars, clientVars, exportVars, importVars, requestVars, callerVars, previewVars,
                   formVars, inferVars>>

NextSchema ==
    \/ SchemaReject
    \/ SchemaStart
    \/ SchemaOk
    \/ SchemaFail

----------------------------------------------------------------------------

(* Join form (MultiTableJoin) *)
\* In this section a text is a sequence of pieces: a whitespace character is a
\* piece of its own, any other run of characters is one piece.

MaxJoins == 2      \* join clauses of a form

TableNames == {<<>>, <<"orders">>}

Aliases == {<<>>, <<"o">>}

Table(name, alias) == [name |-> name, alias |-> alias]

\* the first table cannot be removed; further tables are never read
FormTables ==
    {<<Table(n, a)>> : n \in TableNames, a \in Aliases}
        \cup {<<Table(<<"orders">>, <<"o">>), Table(<<"customers">>, <<"c">>)>>}

JoinCondition(type, table, condition) ==
    [type |-> type, table |-> table, condition |-> condition]

JoinClauses ==
    {JoinCondition(t, <<"customers">>, <<"o.cust_id = c.id">>) :
        t \in {"INNER JOIN", "LEFT JOIN", "RIGHT JOIN", "FULL JOIN"}}
      \cup {JoinCondition("INNER JOIN", <<>>, <<"o.cust_id = c.id">>),
            JoinCondition("LEFT JOIN", <<"customers">>, <<>>),
            JoinCondition("INNER JOIN", <<>>, <<>>),
            JoinCondition("INNER JOIN", <<"customers">>, <<" ">>)}

FormJoins == SeqsUpTo(JoinClauses, MaxJoins)

WhereFragments == {<<>>, <<" ">>, <<"o.total > 100">>}

OrderFragments == {<<>>, <<" ", "\t">>, <<"o.total DESC">>}

LimitFragments == {<<>>, <<" ">>, <<"50">>, <<" ", "50">>}

NoTableMessage == <<"At least one table must be specified">>

\* variant: the position counted from 0
IncompleteMessageFromZero(i) == <<"Join #">> \o Digits(i - 1) \o <<" is incomplete">>

\* `Join #${i + 1} is incomplete`, i + 1 being the 1-based position
IncompleteMessage(i) == <<"Join #">> \o Digits(i) \o <<" is incomplete">>

\* the loop over joins from position i on: throws at the first incomplete clause
RECURSIVE AppendJoins(_, _, _)
AppendJoins(query, js, i) ==
    IF i > Len(js) THEN [ok |-> TRUE, text |-> query]
    ELSE IF js[i].table = <<>> \/ js[i].condition = <<>>
         THEN [ok |-> FALSE, text |-> IncompleteMessage(i)]
         ELSE AppendJoins(query \o <<" ", js[i].type, " ">> \o js[i].table
                                \o <<" ON ">> \o js[i].condition, js, i + 1)

\* variant: the clause is appended whatever the fragment is
AppendAlways(keyword, fragment) == <<keyword>> \o fragment

\* if (fragment.trim()) query += ` KEYWORD ${fragment}`
AppendIfGiven(keyword, fragment) ==
    IF IsBlank(fragment) THEN <<>> ELSE <<keyword>> \o fragment

\* variant: the join clauses are validated before the primary table
BuildQueryJoinsFirst(ts, js, where, orderBy, limit) ==
    LET joined == AppendJoins(<<"SELECT * FROM ">> \o ts[1].name
                                \o (IF ts[1].alias # <<>>
                                    THEN <<" AS ">> \o ts[1].alias ELSE <<>>),
                              js, 1)
    IN  IF ~joined.ok THEN joined
        ELSE IF Len(ts) = 0 \/ ts[1].name = <<>>
        THEN [ok |-> FALSE, text |-> NoTableMessage]
        ELSE [ok |-> TRUE,
              text |-> joined.text
                         \o AppendIfGiven(" WHERE ", where)
                         \o AppendIfGiven(" ORDER BY ", orderBy)
                         \o AppendIfGiven(" LIMIT ", limit)]

\* the try block of generateQuery: the query text, or the thrown message
BuildQuery(ts, js, where, orderBy, limit) ==
    IF Len(ts) = 0 \/ ts[1].name = <<>>
    THEN [ok |-> FALSE, text |-> NoTableMessage]
    ELSE LET firstTable == ts[1]
             from == <<"SELECT * FROM ">> \o firstTable.name
                        \o (IF firstTable.alias # <<>>
                            THEN <<" AS ">> \o firstTable.alias ELSE <<>>)
             joined == AppendJoins(from, js, 1)
         IN  IF ~joined.ok THEN joined
             ELSE [ok |-> TRUE,
                   text |-> joined.text
                              \o AppendIfGiven(" WHERE ", where)
                              \o AppendIfGiven(" ORDER BY ", orderBy)
                              \o AppendIfGiven(" LIMIT ", limit)]

\* variant: a failed validation also resets the parent to table mode
generateQueryResetsParent ==
    /\ LET built == BuildQuery(tables, joins, whereClause, orderByClause, limitClause)
       IN  IF built.ok
           THEN /\ queryType' = "query"
                /\ customQuery' = built.text
                /\ UNCHANGED error
           ELSE /\ error' = built.text
                /\ queryType' = "table"
                /\ customQuery' = <<>>
    /\ UNCHANGED <<tables, joins, whereClause, orderByClause, limitClause>>
    /\ UNCHANGED <<jobVars, clientVars, exportVars, importVars, requestVars, callerVars, previewVars,
                   schemaVars, inferVars>>

\* generateQuery with the parent's onQueryGenerated = handleJoinQueryGenerated
generateQuery ==
    /\ LET built == BuildQuery(tables, joins, whereClause, orderByClause, limitClause)
       IN  IF built.ok
           THEN /\ queryType' = "query"
                /\ customQuery' = built.text
                /\ UNCHANGED error
           ELSE /\ error' = built.text
                /\ UNCHANGED <<queryType, customQuery>>
    /\ UNCHANGED <<tables, joins, whereClause, orderByClause, limitClause>>
    /\ UNCHANGED <<jobVars, clientVars, exportVars, importVars, requestVars, callerVars, previewVars,
                   schemaVars, inferVars>>

NextForm == generateQuery

----------------------------------------------------------------------------

(* Type inference (FileToClickHouse) *)
\* In this section a text is again a sequence of one-character strings.

MaxColumnRows == 3      \* rows of a parsed preview

IsDigit(ch) == \E d \in 1..10 : DigitChars[d] = ch

DigitValue(ch) == (CHOOSE d \in 1..10 : DigitChars[d] = ch) - 1

\* the position after the run of digits that starts at i
RECURSIVE DigitsEnd(_, _)
DigitsEnd(s, i) ==
    IF i <= Len(s) /\ IsDigit(s[i]) THEN DigitsEnd(s, i + 1) ELSE i

\* the value of the digits s[from], ..., s[to - 1]
RECURSIVE Decimal(_, _, _)
Decimal(s, from, to) ==
    IF from >= to THEN 0
    ELSE Decimal(s, from, to - 1) * 10 + DigitValue(s[to - 1])

RECURSIVE Pow10(_)
Pow10(n) == IF n = 0 THEN 1 ELSE 10 * Pow10(n - 1)

\* the text without its leading and trailing whitespace
TrimText(s) ==
    LET inked == {i \in 1..Len(s) : s[i] \notin Whitespace}
    IN  IF inked = {} THEN <<>>
        ELSE SubSeq(s, CHOOSE i \in inked : \A j \in inked : i <= j,
                       CHOOSE i \in inked : \A j \in inked : i >= j)

NotANumber == [nan |-> TRUE, neg |-> FALSE, mant |-> 0, scale |-> 0]

\* Number(text) for decimal literals: whitespace, sign, digits, fraction and
\* exponent; the value is (neg ? -1 : 1) * mant * 10^scale.  The empty text is
\* 0; anything that is not a literal is NaN.
ToNumber(text) ==
    LET t         == TrimText(text)
        signed    == Len(t) > 0 /\ t[1] \in {"+", "-"}
        intStart  == IF signed THEN 2 ELSE 1
        intEnd    == DigitsEnd(t, intStart)
        hasDot    == intEnd <= Len(t) /\ t[intEnd] = "."
        fracStart == IF hasDot THEN intEnd + 1 ELSE intEnd
        fracEnd   == DigitsEnd(t, fracStart)
        hasExp    == fracEnd <= Len(t) /\ t[fracEnd] \in {"e", "E"}
        expSigned == hasExp /\ fracEnd + 1 <= Len(t) /\ t[fracEnd + 1] \in {"+", "-"}
        expStart  == IF ~hasExp THEN fracEnd
                     ELSE IF expSigned THEN fracEnd + 2 ELSE fracEnd + 1
        expEnd    == DigitsEnd(t, expStart)
        exponent  == IF expSigned /\ t[fracEnd + 1] = "-"
                     THEN 0 - Decimal(t, expStart, expEnd)
                     ELSE Decimal(t, expStart, expEnd)
    IN  IF t = <<>> THEN [nan |-> FALSE, neg |-> FALSE, mant |-> 0, scale |-> 0]
        ELSE IF \/ (intEnd - intStart) + (fracEnd - fracStart) = 0
                \/ (hasExp /\ expEnd = expStart)
                \/ expEnd # Len(t) + 1
             THEN NotANumber
        ELSE [nan |-> FALSE,
              neg |-> t[1] = "-",
              mant |-> Decimal(t, intStart, intEnd) * Pow10(fracEnd - fracStart)
                          + Decimal(t, fracStart, fracEnd),
              scale |-> exponent - (fracEnd - fracStart)]

\* Number.isInteger
IsInteger(n) ==
    /\ ~n.nan
    /\ \/ n.mant = 0
       \/ n.scale >= 0
       \/ n.mant % Pow10(0 - n.scale) = 0

\* the value of a number that is an integer
IntegerValue(n) ==
    LET size == IF n.scale >= 0 THEN n.mant * Pow10(n.scale)
                ELSE n.mant \div Pow10(0 - n.scale)
    IN  IF n.neg THEN 0 - size ELSE size

\* variant: any text of the length of a date
IsDateTextByLength(s) == Len(s) = 10

\* /^\d{4}-\d{2}-\d{2}$/
IsDateText(s) ==
    /\ Len(s) = 10
    /\ \A i \in {1, 2, 3, 4, 6, 7, 9, 10} : IsDigit(s[i])
    /\ s[5] = "-"
    /\ s[8] = "-"

\* variant: a row that is empty or missing uses up a sample slot
RECURSIVE TakeSamplesOfFirstRows(_, _, _, _)
TakeSamplesOfFirstRows(column, i, samples, sampleSize) ==
    IF ~(i <= Len(column) /\ i <= sampleSize) THEN samples
    ELSE IF column[i] # Undefined /\ column[i] # <<>>
         THEN TakeSamplesOfFirstRows(column, i + 1, Append(samples, column[i]), sampleSize)
         ELSE TakeSamplesOfFirstRows(column, i + 1, samples, sampleSize)

\* the loop of part_001:116-120 from row i on
RECURSIVE TakeSamples(_, _, _, _)
TakeSamples(column, i, samples, sampleSize) ==
    IF ~(i <= Len(column) /\ Len(samples) < sampleSize) THEN samples
    ELSE IF column[i] # Undefined /\ column[i] # <<>>
         THEN TakeSamples(column, i + 1, Append(samples, column[i]), sampleSize)
         ELSE TakeSamples(column, i + 1, samples, sampleSize)

\* variant: 255 itself is not a UInt8
IntegerTypeBelow(maxVal) ==
    IF maxVal < 255 THEN "UInt8"
    ELSE IF maxVal <= 65535 THEN "UInt16"
    ELSE "UInt32"

\* part_001:132-134
IntegerType(maxVal) ==
    IF maxVal <= 255 THEN "UInt8"
    ELSE IF maxVal <= 65535 THEN "UInt16"
    ELSE "UInt32"

\* inferColumnType(rows, colIndex), column[i] being rows[i][colIndex]
inferColumnType(column) ==
    LET sampleSize == Min(10, Len(column))
        samples    == TakeSamples(column, 1, <<>>, sampleSize)
        numbers    == [i \in 1..Len(samples) |-> ToNumber(samples[i])]
    IN  IF Len(samples) = 0 THEN "String"
        ELSE IF \A i \in 1..Len(samples) : ~numbers[i].nan
             THEN IF \A i \in 1..Len(samples) : IsInteger(numbers[i])
                  THEN LET maxVal ==
                             CHOOSE v \in {IntegerValue(numbers[i]) : i \in 1..Len(samples)} :
                                 \A i \in 1..Len(samples) : IntegerValue(numbers[i]) <= v
                       IN  IntegerType(maxVal)
                  ELSE "Float64"
        ELSE IF \A i \in 1..Len(samples) : IsDateText(samples[i]) THEN "Date"
        ELSE "String"

DateSample == <<"2", "0", "2", "4", "-", "0", "1", "-", "1", "5">>

\* the values a parsed field can have
SampleValues ==
    {Digits(0), Digits(7), Digits(255), Digits(256), Digits(65535), Digits(65536),
     <<"-", "5">>, <<"1", ".", "0">>, <<"2", ".", "5">>, <<"1", "e", "3">>,
     <<"5", "E", "-", "1">>, <<"a", "b", "c">>,
     DateSample, <<"2", "0", "2", "4", "/", "0", "1", "/", "1", "5">>,
     <<>>, Undefined}

MaxTail == 2      \* rows after the filled part of a long column

Repeat(v, n) == [i \in 1..n |-> v]

\* nine or ten equal values, in a row or with a missing and two empty fields
\* among them
FilledRows ==
    UNION {{Repeat(v, n),
            <<<<>>>> \o Repeat(v, n - 4) \o <<Undefined, <<>>>> \o Repeat(v, 4)} :
              v \in {Digits(7), DateSample}, n \in {9, 10}}

\* the values of the rows after the filled part
TailValues ==
    {Digits(7), Digits(65536), <<"2", ".", "5">>, <<"a", "b", "c">>, DateSample, <<>>}

\* columns of more rows than the sample size
LongColumns == {filled \o tail : filled \in FilledRows,
                                tail \in SeqsUpTo(TailValues, MaxTail)}

SampleColumns == SeqsUpTo(SampleValues, MaxColumnRows) \cup LongColumns

\* handleParseCSV: the type of a column of the parsed preview is inferred
InferColumn ==
    /\ inferredType = "none"
    /\ inferredType' = inferColumnType(sampleRows)
    /\ UNCHANGED sampleRows
    /\ UNCHANGED <<jobVars, clientVars, exportVars, importVars, requestVars, callerVars, previewVars,
                   schemaVars, formVars>>

NextInfer == InferColumn

----------------------------------------------------------------------------

\* no export request yet
ExportIdle ==
    /\ epc = "idle"
    /\ columns = <<>>
    /\ filename = <<>>
    /\ outFile = <<>>
    /\ outputOpen = FALSE
    /\ storeText = <<>>
    /\ chunkSizes = {}
    /\ delivered = 0
    /\ isFirstLine = TRUE
    /\ lineCount = 0
    /\ totalBytes = 0
    /\ estimatedTotalBytes = InitialEstimate
    /\ events = <<>>
    /\ controllerClosed = FALSE
    /\ exportGiven = {}
    /\ exportResponse = [status |-> 0]
    /\ exportQuery = <<>>
    /\ disconnected = FALSE
    /\ cancelled = FALSE

\* no import request yet
ImportIdle ==
    /\ ipc = "idle"
    /\ hasHeader = FALSE
    /\ importColumns = <<>>
    /\ fileLines = <<>>
    /\ tempFile = FALSE
    /\ rows = <<>>
    /\ loopIndex = 0
    /\ processedRows = 0
    /\ importProgress = 0
    /\ statements = <<>>
    /\ tableRows = <<>>
    /\ response = [status |-> 0]
    /\ sseOpen = FALSE
    /\ importEvents = <<>>
    /\ importGiven = {}

\* no preview request yet
PreviewIdle ==
    /\ ppc = "idle"
    /\ previewGiven = {}
    /\ previewColumns = <<>>
    /\ previewQuery = <<>>
    /\ previewResponse = [status |-> 0]

\* no schema request yet
SchemaIdle ==
    /\ spc = "idle"
    /\ schemaRequest = [given |-> {}, queryType |-> "table", tableName |-> <<>>,
                        query |-> <<>>]
    /\ schemaQuery = <<>>
    /\ relationColumns = <<>>
    /\ schemaResponse = [status |-> 0]

\* the useState initial values of the join form and of its parent
FormPristine ==
    /\ tables = <<[name |-> <<>>, alias |-> <<>>]>>
    /\ joins = <<>>
    /\ whereClause = <<>>
    /\ orderByClause = <<>>
    /\ limitClause = <<>>
    /\ error = <<>>
    /\ queryType = "table"
    /\ customQuery = <<>>

\* no column looked at yet
InferIdle ==
    /\ sampleRows = <<>>
    /\ inferredType = "none"

\* no export job running side by side
NoJobs ==
    /\ jobs = [j \in JobIds |-> JobIdle]
    /\ disk = [p \in Paths |-> <<>>]

\* the useState initial values of the import form
ClientPristine ==
    /\ status = "idle"
    /\ errorMessage = ""
    /\ progress = 0
    /\ importResult = <<>>
    /\ formFile = <<>>
    /\ formTableName = ""
    /\ formColumns = <<>>
    /\ formHasHeader = TRUE
    /\ hpc = "idle"
    /\ eventSource = "none"

Init ==
    /\ ExportIdle
    /\ ImportIdle
    /\ PreviewIdle
    /\ SchemaIdle
    /\ FormPristine
    /\ InferIdle
    /\ NoJobs
    /\ ClientPristine

\* the join form after the user filled it in, before Generate Query is pressed
FormFilled ==
    /\ tables \in FormTables
    /\ joins \in FormJoins
    /\ whereClause \in WhereFragments
    /\ orderByClause \in OrderFragments
    /\ limitClause \in LimitFragments
    /\ error = <<>>
    /\ queryType = "table"
    /\ customQuery = <<>>

InitForm ==
    /\ ExportIdle
    /\ ImportIdle
    /\ PreviewIdle
    /\ SchemaIdle
    /\ FormFilled
    /\ InferIdle
    /\ NoJobs
    /\ ClientPristine

\* what the parent's source choice and query box hold when Generate Query is
\* pressed: untouched, a query typed and chosen, a query typed and table mode
\* chosen again
ParentStates ==
    {[queryType |-> "table", customQuery |-> <<>>],
     [queryType |-> "query", customQuery |-> <<"SELECT 1">>],
     [queryType |-> "table", customQuery |-> <<"SELECT 1">>]}

\* the form's error text before the press: none, or the one fetchTables left
PriorErrors == {<<>>, <<"Failed to fetch tables">>}

\* the join form in use: filled in, with the parent and the error text in any
\* of the states the user and fetchTables can have left them in
FormInUse ==
    /\ tables \in FormTables
    /\ joins \in FormJoins
    /\ whereClause \in WhereFragments
    /\ orderByClause \in OrderFragments
    /\ limitClause \in {<<>>, <<"50">>}
    /\ error \in PriorErrors
    /\ \E p \in ParentStates :
          /\ queryType = p.queryType
          /\ customQuery = p.customQuery

InitFormInUse ==
    /\ ExportIdle
    /\ ImportIdle
    /\ PreviewIdle
    /\ SchemaIdle
    /\ FormInUse
    /\ InferIdle
    /\ NoJobs
    /\ ClientPristine

\* a column of the parsed preview, before its type is inferred
ColumnParsed ==
    /\ sampleRows \in SampleColumns
    /\ inferredType = "none"

InitInfer ==
    /\ ExportIdle
    /\ ImportIdle
    /\ PreviewIdle
    /\ SchemaIdle
    /\ FormPristine
    /\ ColumnParsed
    /\ NoJobs
    /\ ClientPristine

\* the import form before Import is pressed: a file chosen or not, a table
\* name typed or not, the columns of the parse with their selection marks
ClientReady ==
    /\ status = "idle"
    /\ errorMessage = ""
    /\ progress = 0
    /\ importResult = <<>>
    /\ formFile \in {<<>>} \cup {<<f>> : f \in FormFiles}
    /\ formTableName \in {"", TargetTable}
    /\ formColumns \in FormColumnLists
    /\ formHasHeader \in BOOLEAN
    /\ hpc = "idle"
    /\ eventSource = "none"

InitClient ==
    /\ ExportIdle
    /\ ImportIdle
    /\ PreviewIdle
    /\ SchemaIdle
    /\ FormPristine
    /\ InferIdle
    /\ NoJobs
    /\ ClientReady

SpecExport == Init /\ [][NextExport]_vars

SpecImport == Init /\ [][NextImport]_vars

SpecTransfer == Init /\ [][NextTransfer]_vars

SpecSchema == Init /\ [][NextSchema]_vars

SpecExportCancel == Init /\ [][NextExportCancel]_vars

SpecForm == InitForm /\ [][NextForm]_vars

SpecFormInUse == InitFormInUse /\ [][NextForm]_vars

SpecJobs == Init /\ [][NextJobs]_vars

\* the request is delivered, every awaited step of the route settles and the
\* fetch resolves; nothing makes the EventSource fail
SpecClient == InitClient /\ [][NextClient]_vars /\ WF_vars(PostHandled)

SpecInfer == InitInfer /\ [][NextInfer]_vars

----------------------------------------------------------------------------
(* Properties of the Streaming Exporter *)

HasProgress(e) == "progress" \in DOMAIN e

Terminals == {i \in 1..Len(events) : IsTerminal(events[i])}

\* lines of the store's text that are not blank; the first is its header
StoreLines == SelectSeq(Split(storeText), LAMBDA l : ~IsBlank(l))

StoreRowCount == Len(StoreLines) - 1

StoreHeaderChars == {StoreLines[1][i] : i \in 1..Len(StoreLines[1])}

\* number of characters in lines from..to of a file
RECURSIVE CharCount(_, _, _)
CharCount(file, from, to) ==
    IF from > to THEN 0
    ELSE IF from = to THEN Len(file[from])
    ELSE LET mid == (from + to) \div 2
         IN  CharCount(file, from, mid) + CharCount(file, mid + 1, to)

StoreDataChars ==
    Cardinality({i \in 1..Len(storeText) : storeText[i] # NL}) - Len(StoreLines[1])

\* C1: within one export job the progress values enqueued on the event stream
\* (per-chunk events, every-1000-lines events and the final 100) never decrease.
ProgressNonDecreasing ==
    \A i, j \in 1..Len(events) :
        (i < j /\ HasProgress(events[i]) /\ HasProgress(events[j]))
            => events[i].progress <= events[j].progress

\* C2: an export job whose event stream was opened ends with exactly one
\* terminal event, complete or error and never both; the terminal event is the
\* last event of the stream, and the stream is closed exactly when it was sent.
ExactlyOneTerminalEvent ==
    /\ Cardinality(Terminals) <= 1
    /\ \A i \in Terminals : i = Len(events)
    /\ \A i \in 1..Len(events) : ~(IsComplete(events[i]) /\ IsError(events[i]))
    /\ controllerClosed <=> Terminals # {}
    /\ epc \in {"done", "failed"} <=> Terminals # {}
    /\ epc = "done" => IsComplete(events[Len(events)])
    /\ epc = "failed" => IsError(events[Len(events)])

\* C2 witness: the result stream failed mid-way, after some chunks and before
\* its end, and the job ended with the error event.
MidStreamFailureReported ==
    /\ epc = "failed"
    /\ delivered > 0
    /\ delivered < Len(storeText)
    /\ Len(events) > 1
    /\ IsError(events[Len(events)])

\* C3: when the export is complete, the number of data lines in the output
\* file and the reported recordCount both equal the number of non-header
\* lines of the store's stream, however the stream was cut into chunks.
RecordCountMatchesStore ==
    epc = "done" =>
        /\ events[Len(events)].recordCount = StoreRowCount
        /\ Len(outFile) - 1 = StoreRowCount

\* C4: the output file starts with the one header line built from the selected
\* column names; nothing of the store's own header line is written to the file
\* or counted, and no data is dropped as a header.
StoreHeaderDiscardedOnce ==
    Len(outFile) > 0 =>
        /\ outFile[1] = Join(columns, <<",">>)
        /\ epc \in {"streaming", "ended", "done"} =>
              LET headerChars == StoreHeaderChars
              IN  /\ \A k \in 2..Len(outFile) : \A i \in 1..Len(outFile[k]) :
                         outFile[k][i] \notin headerChars
                  /\ lineCount = Len(outFile) - 1
        /\ epc = "done" => CharCount(outFile, 2, Len(outFile)) = StoreDataChars

\* C5: every progress value sent before the completion event lies in 0..99;
\* 100 appears in the completion event only.
ProgressBelow100UntilComplete ==
    \A i \in 1..Len(events) :
        /\ IsProgress(events[i]) => events[i].progress \in 0..99
        /\ IsComplete(events[i]) => events[i].progress = 100

\* C5 witness: a progress event at the cap, after the estimate was recomputed
\* at a multiple of 1000 lines, with the job still streaming.
ProgressAtCap ==
    /\ epc = "streaming"
    /\ lineCount >= ProgressEvery
    /\ estimatedTotalBytes # InitialEstimate
    /\ \E i \in 1..Len(events) : IsProgress(events[i]) /\ events[i].progress = 99

\* C6: a completion event is sent only after the output sink was closed; there
\* is one, sent once the stream is exhausted, and it carries progress 100, the
\* output file's name and the number of data lines written to the sink.
CompletionAfterSinkClosed ==
    /\ \A i \in 1..Len(events) :
          IsComplete(events[i]) =>
              /\ ~outputOpen
              /\ delivered = Len(storeText)
              /\ events[i].progress = 100
              /\ events[i].filename = filename
              /\ events[i].recordCount = Len(outFile) - 1
    /\ epc = "done" =>
          Cardinality({i \in 1..Len(events) : IsComplete(events[i])}) = 1

\* C6 witness: a completed export that wrote at least 1000 data lines.
CompletedLongExport ==
    /\ epc = "done"
    /\ IsComplete(events[Len(events)])
    /\ events[Len(events)].recordCount >= ProgressEvery

----------------------------------------------------------------------------
(* Properties of the Batch Writer *)

Inserts == {k \in 1..Len(statements) : statements[k].kind = "INSERT"}

\* N: the number of records the uploaded file parses to
ParsedCount == Len(Parse(fileLines, hasHeader).records)

Ceil(a, b) == (a + b - 1) \div b

\* names of the parsed header (header mode)
ParsedHeader ==
    IF Len(fileLines) = 0 THEN {}
    ELSE {fileLines[1][j] : j \in 1..Len(fileLines[1])}

\* fields of a record (headerless mode)
RecordWidth == IF Len(fileLines) = 0 THEN 0 ELSE Len(fileLines[1])

\* a requested column that the parsed file does not have
MissingColumn ==
    \E c \in 1..Len(importColumns) :
        IF hasHeader
        THEN importColumns[c].name \notin ParsedHeader
        ELSE \A k \in 1..RecordWidth : importColumns[c].name # GeneratedName(k)

\* C7: an import of a file that parses to N rows, none of whose statements
\* failed, executed exactly ceil(N / 1000) INSERT statements (none for N = 0)
\* and returns recordCount = N.
InsertCountIsCeiling ==
    ipc = "done" =>
        /\ \A k \in 1..Len(statements) : statements[k].ok
        /\ Cardinality(Inserts) = Ceil(ParsedCount, batchSize)
        /\ response.status = 200
        /\ response.recordCount = ParsedCount

\* C7 witness: a finished import of more than two full batches plus a rest.
ThreeBatchImportDone ==
    /\ ipc = "done"
    /\ ParsedCount > 2 * batchSize
    /\ ParsedCount % batchSize # 0
    /\ Cardinality(Inserts) = 3

\* C8: a failed INSERT is the last statement of the import: the batches before
\* it were executed and their rows are in the table, no later batch is sent,
\* and the response is an error without a record count.
InsertFailureStopsImport ==
    \A k \in 1..Len(statements) :
        (statements[k].kind = "INSERT" /\ ~statements[k].ok) =>
            LET before == {j \in Inserts : j < k}
            IN  /\ k = Len(statements)
                /\ \A j \in before : statements[j].ok
                /\ Cardinality(before) = loopIndex \div batchSize
                /\ Len(tableRows) = Cardinality(before) * batchSize
                /\ tableRows =
                     [r \in 1..(Cardinality(before) * batchSize) |-> RenderRow(rows[r])]
                /\ ipc = "failed"
                /\ response.status = 500
                /\ DOMAIN response = {"status", "error"}

\* C8 witness: the third INSERT failed after two batches were committed.
ThirdBatchFailed ==
    /\ ipc = "failed"
    /\ Cardinality(Inserts) = 3
    /\ ~statements[Len(statements)].ok
    /\ Len(tableRows) = 2 * batchSize

\* C9: every executed INSERT batch is followed by a progress report on the
\* import's event stream, and that stream ends with a terminal complete or
\* error event when the import ends.
ImportProgressOnChannel ==
    /\ Cardinality({i \in 1..Len(importEvents) : HasProgress(importEvents[i])})
           >= Cardinality({k \in Inserts : statements[k].ok})
    /\ (sseOpen /\ ipc \in {"done", "failed"}) =>
           /\ Len(importEvents) > 0
           /\ IsTerminal(importEvents[Len(importEvents)])

\* C10: when a selected column is absent from the parsed header (header mode)
\* or outside the record's index range (headerless mode), no INSERT is executed
\* and the import does not return success.
SchemaErrorOnMissingColumn ==
    (Parse(fileLines, hasHeader).ok /\ MissingColumn) =>
        /\ \A k \in Inserts : ~statements[k].ok
        /\ ipc \notin {"inserting", "cleanup", "done"}

\* the inserts sent before statement k
InsertsBefore(k) == Cardinality({j \in Inserts : j < k})

\* K of a generated name ColumnK, 0 for any other name
ColumnNumber(name) ==
    IF \E k \in 1..9 : name = GeneratedName(k)
    THEN CHOOSE k \in 1..9 : name = GeneratedName(k)
    ELSE 0

\* C11: in a headerless import the value inserted for a selected column named
\* ColumnK is the K-th field of each record, in file order, whichever subset of
\* the generated columns was selected.
HeaderlessValueIsKthField ==
    ~hasHeader =>
        \A k \in Inserts :
            LET first == InsertsBefore(k) * batchSize
            IN  \A r \in 1..Len(statements[k].values) :
                    \A c \in 1..Len(statements[k].columns) :
                        ColumnNumber(statements[k].columns[c]) > 0 =>
                            statements[k].values[r][c] =
                                RenderValue(Element(fileLines[first + r],
                                    ColumnNumber(statements[k].columns[c]) - 1))

\* types whose literals are written in quotes
StringLikeTypes == {"String", "Date", "DateTime"}

\* the literal of a scalar of a declared type
TypedLiteral(val, type) ==
    IF val = Undefined \/ val = <<>> THEN NullLiteral
    ELSE IF type \in StringLikeTypes THEN <<"'">> \o DoubleQuotes(val) \o <<"'">>
    ELSE val

\* C12: in every INSERT each scalar is rendered by its column's declared type:
\* NULL when empty or absent, quoted with doubled quotes for a string-like
\* type, the unquoted literal for every other type.
ValuesRenderedByDeclaredType ==
    \A k \in Inserts :
        LET first == InsertsBefore(k) * batchSize
        IN  \A r \in 1..Len(statements[k].values) :
                \A c \in 1..Len(importColumns) :
                    statements[k].values[r][c] =
                        TypedLiteral(rows[first + r][c], importColumns[c].type)

----------------------------------------------------------------------------
(* Properties of the join form *)

\* Generate Query was pressed: it left an error text or a query
Generated == error # <<>> \/ customQuery # <<>>

Incomplete(join) == join.table = <<>> \/ join.condition = <<>>

IncompleteJoins == {i \in 1..Len(joins) : Incomplete(joins[i])}

FirstIncomplete == CHOOSE i \in IncompleteJoins : \A j \in IncompleteJoins : i <= j

\* C13 as stated: generateQuery reports a validation error exactly when some
\* join clause has an empty table or an empty condition, and the message names
\* that clause's 1-based position.
ErrorIffIncompleteJoin ==
    Generated =>
        /\ error # <<>> <=> IncompleteJoins # {}
        /\ error # <<>> => \E i \in IncompleteJoins : error = IncompleteMessage(i)

\* C13: with a primary table named, generateQuery reports a validation error
\* exactly when some join clause has an empty table or an empty condition, and
\* the message is `Join #i is incomplete` for the first such clause, i counted
\* from 1; with no primary table named the error is that a table must be
\* specified, whatever the clauses are.  An error leaves the parent's query.
ErrorIffIncompleteJoinOfNamedTable ==
    Generated =>
        /\ tables[1].name # <<>> =>
              /\ error # <<>> <=> IncompleteJoins # {}
              /\ error # <<>> =>
                    error = <<"Join #">> \o Digits(FirstIncomplete) \o <<" is incomplete">>
        /\ tables[1].name = <<>> => error = NoTableMessage
        /\ error # <<>> => customQuery = <<>>

\* C13 witness: the second of two clauses is the incomplete one and is named.
SecondJoinReported ==
    /\ Len(joins) = 2
    /\ ~Incomplete(joins[1])
    /\ Incomplete(joins[2])
    /\ error = <<"Join #", "2", " is incomplete">>

\* the text of one join clause
JoinText(join) ==
    <<" ", join.type, " ">> \o join.table \o <<" ON ">> \o join.condition

\* a trailing clause, present when its fragment has a character that is not
\* whitespace
TrailingClause(keyword, fragment) ==
    IF \E i \in 1..Len(fragment) : fragment[i] \notin Whitespace
    THEN <<keyword>> \o fragment
    ELSE <<>>

\* the query the form describes
DescribedQuery ==
    <<"SELECT * FROM ">> \o tables[1].name
        \o (IF tables[1].alias = <<>> THEN <<>> ELSE <<" AS ">> \o tables[1].alias)
        \o Join([i \in 1..Len(joins) |-> JoinText(joins[i])], <<>>)
        \o TrailingClause(" WHERE ", whereClause)
        \o TrailingClause(" ORDER BY ", orderByClause)
        \o TrailingClause(" LIMIT ", limitClause)

\* the form of the specification's example
ExampleForm ==
    /\ tables[1] = Table(<<"orders">>, <<"o">>)
    /\ joins = <<JoinCondition("INNER JOIN", <<"customers">>, <<"o.cust_id = c.id">>)>>
    /\ whereClause = <<"o.total > 100">>
    /\ orderByClause = <<"o.total DESC">>
    /\ limitClause = <<"50">>

ExampleQuery ==
    <<"SELECT * FROM ", "orders", " AS ", "o",
      " ", "INNER JOIN", " ", "customers", " ON ", "o.cust_id = c.id",
      " WHERE ", "o.total > 100", " ORDER BY ", "o.total DESC", " LIMIT ", "50">>

\* C14: for a valid form generateQuery hands the parent exactly
\* SELECT * FROM <primary>[ AS <alias>], one ` <kind> <table> ON <predicate>`
\* per join in order, then WHERE, ORDER BY and LIMIT in this order, each only
\* when its fragment is not blank; the example form gives the example query.
QueryIsAssembledInOrder ==
    Generated =>
        /\ (tables[1].name # <<>> /\ IncompleteJoins = {}) =>
              /\ customQuery = DescribedQuery
              /\ queryType = "query"
              /\ error = <<>>
        /\ ExampleForm => customQuery = ExampleQuery

\* C14 witness: the example form was generated.
ExampleGenerated ==
    /\ ExampleForm
    /\ customQuery = ExampleQuery

----------------------------------------------------------------------------
(* Properties of the request validation *)

ColumnsMessage == "At least one column must be selected"

\* the request's list of selected columns is missing or empty
Unselected(given, cols) == "columns" \notin given \/ cols = <<>>

\* a request of position pc, with the parameters `given` and the columns
\* `cols`, answered by `answer`, that sent `sent` to the store: without a
\* selected column it is rejected with status 400 and nothing is sent, the
\* error being the column-selection message when the other parameters and the
\* list itself are there; with a column selected it gets no column-selection
\* error and, the other parameters given, is not rejected
ValidatedColumns(pc, given, cols, answer, sent) ==
    pc # "idle" =>
        IF Unselected(given, cols)
        THEN /\ pc = "rejected"
             /\ answer.status = 400
             /\ given = Parameters => answer.error = ColumnsMessage
             /\ sent = <<>>
        ELSE /\ "connection" \in given => (pc # "rejected" /\ answer.status # 400)
             /\ answer.status = 400 => answer.error # ColumnsMessage

\* the text begins with the pieces of prefix
StartsWith(text, prefix) ==
    /\ Len(text) >= Len(prefix)
    /\ SubSeq(text, 1, Len(prefix)) = prefix

----------------------------------------------------------------------------
(* Properties of the schema resolver *)

\* C16: for a raw query the schema resolver runs SELECT * FROM (<query>)
\* LIMIT 0 and answers one descriptor (name, type) per column of the result,
\* taken from the result's column metadata although it has no row.
RawQuerySchemaFromMetadata ==
    (spc = "done" /\ schemaRequest.queryType = "query") =>
        /\ schemaQuery = <<"SELECT * FROM ", "(">> \o schemaRequest.query
                            \o <<")", " LIMIT 0">>
        /\ schemaResponse.status = 200
        /\ schemaResponse.columns = relationColumns

----------------------------------------------------------------------------
(* Properties of the resources of a job *)

\* C17: on every exit path of a transfer job the resources it opened are
\* released before it ends: the export's output file handle is closed, the
\* import's temporary upload file is removed.
ResourcesReleasedOnExit ==
    /\ epc \in {"done", "failed"} => ~outputOpen
    /\ ipc \in {"done", "failed"} => ~tempFile

\* C18: when the caller has disconnected and the exporter met the broken
\* stream, it has stopped with the output file handle released; the lines
\* already written stay in the file.
DisconnectStopsExport ==
    (disconnected /\ epc = "aborted") =>
        /\ ~outputOpen
        /\ Len(outFile) > 0
        /\ outFile[1] = Join(columns, <<",">>)

----------------------------------------------------------------------------
(* Properties of the type inference *)

\* the samples inferColumnType judges: the first ten values of the column
\* that are neither missing nor empty
Samples ==
    LET present == SelectSeq(sampleRows, LAMBDA v : v # Undefined /\ v # <<>>)
    IN  SubSeq(present, 1, Min(10, Len(present)))

SampleNumbers == {ToNumber(Samples[i]) : i \in 1..Len(Samples)}

\* C19: when every sample parses as an integer the inferred type is the
\* narrowest unsigned type that bounds the largest sample: UInt8 up to 255,
\* UInt16 up to 65535, UInt32 beyond; never a signed or a 64-bit type.
IntegersGetNarrowestUnsigned ==
    (inferredType # "none" /\ Samples # <<>>
        /\ \A n \in SampleNumbers : IsInteger(n)) =>
        LET values == {IntegerValue(n) : n \in SampleNumbers}
        IN  /\ (\A v \in values : v <= 255) <=> inferredType = "UInt8"
            /\ (\E v \in values : v > 255) /\ (\A v \in values : v <= 65535)
                  <=> inferredType = "UInt16"
            /\ (\E v \in values : v > 65535) <=> inferredType = "UInt32"
            /\ inferredType \in {"UInt8", "UInt16", "UInt32"}

\* C19 witness: three integer samples whose largest is 65535 gave UInt16.
LargestSampleIs65535 ==
    /\ inferredType = "UInt16"
    /\ Len(Samples) = 3
    /\ \E i \in 1..3 : Samples[i] = <<"6", "5", "5", "3", "5">>
    /\ \E i \in 1..3 : Samples[i] = <<"2", "5", "5">>

\* the text is written with a fraction or an exponent
FractionalForm(s) == \E i \in 1..Len(s) : s[i] \in {".", "e", "E"}

\* C20: when every sample parses as a number and at least one is written in
\* fractional or exponent form (1.0, 1e3, 2.5) the inferred type is Float64.
FractionalFormGetsFloat64 ==
    (inferredType # "none" /\ Samples # <<>>
        /\ (\A n \in SampleNumbers : ~n.nan)
        /\ \E i \in 1..Len(Samples) : FractionalForm(Samples[i])) =>
        inferredType = "Float64"

----------------------------------------------------------------------------
(* Order of the validation rules of the join form *)

\* the join positions an error text names
NamedPositions == {i \in 1..Len(joins) : error = IncompleteMessage(i)}

\* C22: generateQuery checks its rules in order and the first failure wins:
\* with an empty primary table name the error is that a table must be
\* specified, whatever state the join clauses are in, and with a primary table
\* named and several incomplete clauses the error names the smallest 1-based
\* position among them and no other.
FirstFailureWins ==
    Generated =>
        /\ tables[1].name = <<>> =>
              /\ error = NoTableMessage
              /\ NamedPositions = {}
        /\ (tables[1].name # <<>> /\ IncompleteJoins # {}) =>
              /\ NamedPositions = {FirstIncomplete}
              /\ \A i \in IncompleteJoins : FirstIncomplete <= i

\* C22 witness: no primary table and two incomplete clauses; the table is
\* what is reported.
TableReportedBeforeJoins ==
    /\ tables[1].name = <<>>
    /\ Cardinality(IncompleteJoins) = 2
    /\ error = NoTableMessage

----------------------------------------------------------------------------
(* Frame of generateQuery *)

\* the form passes validation: a primary table is named and no clause is
\* incomplete
FormValid == tables[1].name # <<>> /\ IncompleteJoins = {}

ValidationMessages ==
    {NoTableMessage} \cup {<<"Join #">> \o Digits(i) \o <<" is incomplete">> : i \in 1..Len(joins)}

\* C29: generateQuery hands a query to the parent, which switches to query
\* mode and takes the query as its custom query, if and only if validation
\* passes; when validation fails it sets the form's own error text and leaves
\* the parent's queryType and customQuery unchanged; the tables, joins and
\* fragments of the form are never changed.
QueryHandedIffValid ==
    [][/\ FormValid => (queryType' = "query" /\ customQuery' = DescribedQuery)
       /\ ~FormValid =>
             /\ error' \in ValidationMessages
             /\ queryType' = queryType
             /\ customQuery' = customQuery
       /\ UNCHANGED <<tables, joins, whereClause, orderByClause, limitClause>>]_vars

\* C29 witness: validation failed while the parent was in query mode with a
\* query of its own, which it still holds.
FailedWithParentInQueryMode ==
    /\ error \in ValidationMessages
    /\ ~FormValid
    /\ queryType = "query"
    /\ customQuery = <<"SELECT 1">>

----------------------------------------------------------------------------
(* Order of the rows and of the statements of an import *)

\* the records of the uploaded file, in file order
FileRecords == Parse(fileLines, hasHeader).records

\* the field of a record that belongs to a selected column: the field under
\* the column's name, or field K of a headerless record for the name ColumnK
FieldOfColumn(record, name) ==
    IF hasHeader THEN Property(record, name)
    ELSE Element(record, ColumnNumber(name) - 1)

\* batch i of the import is statement i + 1; its rows are the records
\* (i-1)*1000+1 .. min(i*1000, N) in file order
BatchIsSliceOfFile(k) ==
    LET first == InsertsBefore(k) * batchSize
    IN  /\ first < ParsedCount
        /\ Len(statements[k].values) = Min(batchSize, ParsedCount - first)
        /\ \A j \in Inserts : j < k => statements[j].ok

\* C23: within one import batch i holds exactly rows (i-1)*1000+1 ..
\* min(i*1000, N) in file order, it is sent only after batch i-1 completed,
\* a finished import has sent every row exactly once, and the values of a row
\* are those of the selected columns, in the order of the selection.
RowsKeepFileOrder ==
    LET records == FileRecords
    IN  /\ \A k \in Inserts :
              /\ BatchIsSliceOfFile(k)
              /\ LET first == InsertsBefore(k) * batchSize
                 IN  \A c \in 1..Len(importColumns) :
                        (hasHeader \/ ColumnNumber(importColumns[c].name) > 0) =>
                            \A r \in 1..Len(statements[k].values) :
                                statements[k].values[r][c] =
                                    RenderValue(FieldOfColumn(records[first + r],
                                                              importColumns[c].name))
        /\ ipc = "done" => Len(tableRows) = ParsedCount

\* the same with the values left out: the rows of each batch only
BatchesKeepFileOrder ==
    /\ \A k \in Inserts : BatchIsSliceOfFile(k)
    /\ ipc = "done" => Len(tableRows) = ParsedCount

\* C24: the create statement is the first statement of an import and is
\* executed before the file is parsed and before any INSERT; a job whose create
\* statement failed executes no INSERT; a file that fails to parse leaves the
\* table created and no row inserted.
CreateBeforeParseAndInsert ==
    /\ ipc = "creating" => (statements = <<>> /\ rows = <<>>)
    /\ statements # <<>> =>
          /\ statements[1].kind = "CREATE"
          /\ Inserts = 2..Len(statements)
          /\ ~statements[1].ok =>
                /\ Inserts = {}
                /\ tableRows = <<>>
                /\ ipc = "failed"
          /\ (statements[1].ok /\ ~Parse(fileLines, hasHeader).ok) =>
                /\ Inserts = {}
                /\ tableRows = <<>>
                /\ ipc = "failed"

\* C24 witness: the table was created, then the file failed to parse.
ParseFailedAfterCreate ==
    /\ ~Parse(fileLines, hasHeader).ok
    /\ statements = <<CreateStatement(importColumns, TRUE)>>
    /\ tableRows = <<>>
    /\ ipc = "failed"

----------------------------------------------------------------------------
(* Sampling and fallbacks of the type inference *)

\* the values of the column that are neither missing nor empty
PresentValues == SelectSeq(sampleRows, LAMBDA v : v # Undefined /\ v # <<>>)

\* C25: inferColumnType decides from the first 10 non-empty values of the
\* column in encounter order and nothing else: the type of a column is the
\* type of the column made of these values alone, so an empty or missing
\* value uses up no sample slot and a value after the 10th non-empty one
\* changes nothing.
DecidedByFirstTenPresent ==
    inferredType # "none" => inferredType = inferColumnType(Samples)

\* C25 witness: ten present values 7 among empty and missing ones, then a
\* text as the eleventh: the text does not count.
EleventhValueIgnored ==
    /\ Len(PresentValues) = 11
    /\ Len(sampleRows) > 11
    /\ PresentValues[11] = <<"a", "b", "c">>
    /\ inferredType = "UInt8"

\* the text has the shape dddd-dd-dd
DatePattern(s) ==
    /\ Len(s) = 10
    /\ \A i \in 1..10 : IF i \in {5, 8} THEN s[i] = "-" ELSE IsDigit(s[i])

\* C26: inferColumnType always returns a type and falls back to String:
\* String for zero non-empty samples, Date when the samples are not all
\* numeric and every one has the shape dddd-dd-dd, String for every other
\* sample set that is not all numeric.
StringIsTheFallback ==
    inferredType # "none" =>
        /\ inferredType \in {"String", "Date", "UInt8", "UInt16", "UInt32", "Float64"}
        /\ Samples = <<>> => inferredType = "String"
        /\ (Samples # <<>> /\ \E n \in SampleNumbers : n.nan) =>
              IF \A i \in 1..Len(Samples) : DatePattern(Samples[i])
              THEN inferredType = "Date"
              ELSE inferredType = "String"

\* C26 witness: a date and a text of the same length with other separators
\* gave String.
DateAndNearDateGetString ==
    /\ Len(Samples) = 2
    /\ DatePattern(Samples[1])
    /\ ~DatePattern(Samples[2])
    /\ Len(Samples[2]) = 10
    /\ inferredType = "String"

\* the largest value of an unsigned type; UInt32 is not listed, its largest
\* value 4294967295 being 65536 * 65536 - 1
UnsignedMax == [UInt8 |-> 255, UInt16 |-> 65535]

\* C30: whenever the inferred type is UInt8, UInt16 or UInt32 every sample
\* lies in the range of that type: none is negative and none is above the
\* type's largest value.
SamplesFitUnsignedType ==
    inferredType \in {"UInt8", "UInt16", "UInt32"} =>
        \A n \in SampleNumbers :
            /\ IsInteger(n)
            /\ IntegerValue(n) >= 0
            /\ IF inferredType = "UInt32"
               THEN IntegerValue(n) \div 65536 < 65536
               ELSE IntegerValue(n) <= UnsignedMax[inferredType]

----------------------------------------------------------------------------
(* Re-estimation of the export's size *)

\* the multiples of 1000 the line count reached up to n lines
Thousands(n) == n \div ProgressEvery

\* C27: each time the line count reaches a multiple of 1000 the byte estimate
\* is set to twice the bytes received so far and the progress event emitted
\* at that moment is 50, whatever was reported before: the events of one chunk
\* are its per-chunk event followed by one event of progress 50 for each
\* multiple of 1000 reached in the chunk.
ReestimateReportsHalf ==
    [][delivered' # delivered =>
          LET reached == Thousands(lineCount') - Thousands(lineCount)
          IN  /\ Len(events') = Len(events) + 1 + reached
              /\ \A i \in (Len(events) + 2)..Len(events') :
                    events'[i] = ProgressEvent(50)
              /\ reached > 0 => estimatedTotalBytes' = 2 * totalBytes'
              /\ reached = 0 => estimatedTotalBytes' = estimatedTotalBytes]_vars

\* C27 witness: the line count has just reached 2000: the estimate is twice
\* the bytes received, the last event says 50 and an earlier one said 99.
HalfReportedAfterCap ==
    /\ Thousands(lineCount) = 2
    /\ estimatedTotalBytes = 2 * totalBytes
    /\ events[Len(events)] = ProgressEvent(50)
    /\ \E i \in 1..Len(events) : events[i] = ProgressEvent(ProgressCap)

----------------------------------------------------------------------------
(* Isolation of export jobs running side by side *)

\* the loop's variables before the first chunk
LoopStart ==
    [isFirstLine |-> TRUE, lineCount |-> 0, totalBytes |-> 0,
     estimatedTotalBytes |-> InitialEstimate, events |-> <<>>, outFile |-> <<>>]

\* what a job that runs alone has after the chunks 1..n of a stream
RECURSIVE Alone(_, _)
Alone(chunks, n) ==
    IF n = 0 THEN LoopStart ELSE ProcessChunk(Alone(chunks, n - 1), chunks[n])

Started == {j \in JobIds : jobs[j].pc # "idle"}

\* C21: two export jobs that run side by side share no state: they write to
\* distinct output files, and the file, the byte total, the line count, the
\* header-skip flag and the reported recordCount of each job are those of a
\* job that received the same chunks alone, under every interleaving of the
\* chunk arrivals.
JobsShareNoState ==
    /\ \A j, k \in Started : j # k => jobs[j].path # jobs[k].path
    /\ \A j \in Started :
          LET own == Alone(jobs[j].received, Len(jobs[j].received))
          IN  /\ disk[jobs[j].path] = <<Join(jobs[j].columns, <<",">>)>> \o own.outFile
              /\ jobs[j].totalBytes = own.totalBytes
              /\ jobs[j].lineCount = own.lineCount
              /\ jobs[j].isFirstLine = own.isFirstLine
              /\ jobs[j].pc = "done" =>
                    jobs[j].events[Len(jobs[j].events)].recordCount = own.lineCount

\* C21 witness: both jobs are in their loops, started at the same timestamp
\* (files of the same name), each has received chunks of its own stream, and
\* they differ in bytes and in lines.
TwoJobsStreaming ==
    /\ \A j \in JobIds : jobs[j].pc = "streaming" /\ Len(jobs[j].received) >= 2
    /\ jobs[1].path[2] = jobs[2].path[2]
    /\ jobs[1].totalBytes # jobs[2].totalBytes
    /\ jobs[1].lineCount # jobs[2].lineCount
    /\ jobs[1].lineCount > 0

----------------------------------------------------------------------------
(* Outcome of an import started from the form *)

\* the POST came back with success
PostSucceeded == hpc = "returned" /\ response.status = 200

\* the POST came back with an error
PostFailed == hpc = "returned" /\ response.status \notin {0, 200}

\* C28: every import started by handleImportToClickHouse eventually leaves
\* status `importing`: when the import request returns success the status
\* becomes `success` with the returned recordCount and tableName in `result`,
\* and when it fails the status becomes `error`.
ImportLeavesImporting ==
    /\ (status = "importing") ~> (status # "importing")
    /\ PostSucceeded ~>
          (/\ status = "success"
           /\ response.status = 200
           /\ importResult = <<[recordCount |-> response.recordCount,
                                tableName |-> response.tableName]>>)
    /\ PostFailed ~> (status = "error")

\* the handler returned after a successful import and the form still says
\* `importing`
StillImportingAfterSuccess ==
    /\ PostSucceeded
    /\ status = "importing"
    /\ importResult = <<>>

====
